---- MODULE Spec2Model ----
(***************************************************************************)
(* Forecast engine of the financial dashboard: the advanced forecasting    *)
(* worker (src/src/workers/forecastWorker.js, second module of the file),  *)
(* and the components that dispatch requests to it.                        *)
(*                                                                         *)
(* Numbers.  A JavaScript number x is represented by the integer x * Scale *)
(* (fixed point, two decimals); a division or a square root rounds down at *)
(* the place where the code divides.  The non-finite numbers are the       *)
(* sentinels NaN and Infinity.  A date string "YYYY-MM-DD" is the tuple    *)
(* <<y, m, d>>; a Date object is its day number since 1970-01-01 (UTC).    *)
(***************************************************************************)
EXTENDS Integers, Sequences, FiniteSets, TLC

VARIABLES
    sIn,        \* a pure function under check: its arguments, [dates, values]
    sOut,       \* a pure function under check: the returned value in a list, empty before the call
    arimaLib,   \* which "arima" package the dynamic import finds
    inbox,      \* worker: messages posted to the worker, not yet handled
    inv,        \* worker: the invocations of self.onmessage, with their locals
    outbox,     \* worker: the messages the worker has posted, in order
    config,     \* dispatcher: ForecastIntelligence's config state
    runs,       \* dispatcher: the started run() closures, with their locals
    cache,      \* dispatcher: the idb-keyval store, cache key -> payload
    result,     \* dispatcher: the result state, a list: empty for null, else the payload
    error,      \* dispatcher: the error state
    loading     \* dispatcher: the loading state

seriesVars == <<sIn, sOut>>
workerVars == <<arimaLib, inbox, inv, outbox>>
dispVars == <<config, runs, cache, result, error, loading>>
vars == <<sIn, sOut, arimaLib, inbox, inv, outbox, config, runs, cache, result, error, loading>>

Unset == "unset"
Null == "null"

(***************************************************************************)
(* Numbers                                                                 *)
(***************************************************************************)
Scale == 10 * 10
NaN == 0 - 1000000007
Infinity == 1000000007

IsFiniteNumber(v) == v # NaN /\ v # Infinity /\ v # 0 - Infinity

Abs(x) == IF x < 0 THEN 0 - x ELSE x
Max(a, b) == IF a >= b THEN a ELSE b
Min(a, b) == IF a <= b THEN a ELSE b

\* x * y and x / y of two fixed-point numbers
Mul(x, y) == (x * y) \div Scale
Div(x, y) == (x * Scale) \div y

safeFiniteNumber(value) == IF IsFiniteNumber(value) THEN value ELSE 0

clampNonNegative(value) == Max(0, safeFiniteNumber(value))

RECURSIVE SumSeq(_)
SumSeq(s) == IF s = <<>> THEN 0 ELSE Head(s) + SumSeq(Tail(s))

\* an array built element by element, held as a tuple
ArrayOf(f) == f \o <<>>

MapSafe(s) == ArrayOf([i \in 1..Len(s) |-> safeFiniteNumber(s[i])])
MapClamp(s) == ArrayOf([i \in 1..Len(s) |-> clampNonNegative(s[i])])

\* s.slice(from) and s.slice(0, to), 0-based as in the code
SliceFrom(s, from) == IF from >= Len(s) THEN <<>> ELSE SubSeq(s, Max(from, 0) + 1, Len(s))
SliceTo(s, to) == IF to <= 0 THEN <<>> ELSE SubSeq(s, 1, Min(to, Len(s)))

(***************************************************************************)
(* Dates                                                                   *)
(***************************************************************************)
\* new Date("YYYY-MM-DD"): midnight UTC of that civil day, as a day number
ParseDate(str) ==
    LET y0 == IF str[2] <= 2 THEN str[1] - 1 ELSE str[1]
        era == y0 \div 400
        yoe == y0 - era * 400
        mp == IF str[2] > 2 THEN str[2] - 3 ELSE str[2] + 9
        doy == (153 * mp + 2) \div 5 + str[3] - 1
        doe == yoe * 365 + yoe \div 4 - yoe \div 100 + doy
    IN  era * 146097 + doe - 719468

\* dateObj.toISOString().slice(0, 10)
formatYYYYMMDD(dateObj) ==
    LET z == dateObj + 719468
        era == z \div 146097
        doe == z - era * 146097
        yoe == (doe - doe \div 1460 + doe \div 36524 - doe \div 146096) \div 365
        doy == doe - (365 * yoe + yoe \div 4 - yoe \div 100)
        mp == (5 * doy + 2) \div 153
        d == doy - (153 * mp + 2) \div 5 + 1
        m == IF mp < 10 THEN mp + 3 ELSE mp - 9
        y == yoe + era * 400 + (IF m <= 2 THEN 1 ELSE 0)
    IN  <<y, m, d>>

addDaysUTC(dateStr, daysToAdd) == ParseDate(dateStr) + daysToAdd

\* d.getUTCDay(): 0 is Sunday; 1970-01-01 was a Thursday
dayOfWeekIndexUTC(dateStr) == (ParseDate(dateStr) + 4) % 7

(***************************************************************************)
(* Series preprocessing                                                    *)
(***************************************************************************)
\* Array.prototype.sort is stable: p goes behind every pair that is not later
RECURSIVE InsertByDate(_, _)
InsertByDate(p, sorted) ==
    IF sorted = <<>> THEN <<p>>
    ELSE IF ParseDate(p.d) - ParseDate(sorted[Len(sorted)].d) >= 0 THEN Append(sorted, p)
    ELSE Append(InsertByDate(p, SubSeq(sorted, 1, Len(sorted) - 1)), sorted[Len(sorted)])

RECURSIVE SortPairs(_)
SortPairs(pairs) ==
    IF pairs = <<>> THEN <<>>
    ELSE InsertByDate(pairs[Len(pairs)], SortPairs(SubSeq(pairs, 1, Len(pairs) - 1)))

\* the pairs in the order given, as if the sort were left out
PairsAsGiven(dates, values) ==
    [dates |-> dates,
     values |-> ArrayOf([i \in 1..Len(dates) |->
                   IF i <= Len(values) THEN safeFiniteNumber(values[i]) ELSE 0])]

sortPairsByDate(dates, values) ==
    LET pairs == ArrayOf([i \in 1..Len(dates) |->
                    [d |-> dates[i],
                     v |-> IF i <= Len(values) THEN safeFiniteNumber(values[i]) ELSE 0]])
        sorted == SortPairs(pairs)
    IN  [dates |-> ArrayOf([i \in 1..Len(sorted) |-> sorted[i].d]),
         values |-> ArrayOf([i \in 1..Len(sorted) |-> sorted[i].v])]

\* dateToValueMap after the loop of set() calls: the last pair of a key wins
MapHas(dates, key) == \E i \in 1..Len(dates) : dates[i] = key
MapGet(dates, values, key) ==
    LET last == CHOOSE i \in 1..Len(dates) :
                    dates[i] = key /\ \A j \in (i + 1)..Len(dates) : dates[j] # key
    IN  safeFiniteNumber(values[last])

\* the while loop: one entry per day from cursor to endDate
RECURSIVE FillDays(_, _, _, _)
FillDays(cursor, endDate, dates, values) ==
    IF cursor > endDate THEN <<>>
    ELSE LET key == formatYYYYMMDD(cursor)
             hasValue == MapHas(dates, key)
         IN  <<[key |-> key,
                has |-> hasValue,
                v |-> safeFiniteNumber(IF hasValue THEN MapGet(dates, values, key) ELSE 0)]>>
             \o FillDays(addDaysUTC(key, 1), endDate, dates, values)

buildContinuousDailySeries(inputDates, inputValues) ==
    LET s == sortPairsByDate(inputDates, inputValues)
        days == IF s.dates = <<>> THEN <<>>
                ELSE FillDays(ParseDate(s.dates[1]), ParseDate(s.dates[Len(s.dates)]),
                              s.dates, s.values)
    IN  [continuousDates |-> ArrayOf([i \in 1..Len(days) |-> days[i].key]),
         continuousValues |-> ArrayOf([i \in 1..Len(days) |-> days[i].v]),
         missingCount |-> Cardinality({i \in 1..Len(days) : ~days[i].has})]

(***************************************************************************)
(* Statistics toolkit (simple-statistics, and the worker's own helpers)    *)
(***************************************************************************)
NullNum == 0 - 1000000009
E18 == 1000000000

\* x ?? dflt
OrElse(x, dflt) == IF x = NullNum THEN dflt ELSE x

RECURSIVE IsqrtFrom(_, _)
IsqrtFrom(x, r) == IF (r + 1) * (r + 1) > x THEN r ELSE IsqrtFrom(x, r + 1)
RECURSIVE Isqrt(_)
Isqrt(x) == IF x < 4 THEN (IF x < 1 THEN 0 ELSE 1)
            ELSE IsqrtFrom(x, 2 * Isqrt(x \div 4))

\* Math.sqrt of a fixed-point number
Sqrt(x) == Isqrt(x * Scale)

RECURSIVE InsertNum(_, _)
InsertNum(x, sorted) ==
    IF sorted = <<>> THEN <<x>>
    ELSE IF x >= sorted[Len(sorted)] THEN Append(sorted, x)
    ELSE Append(InsertNum(x, SubSeq(sorted, 1, Len(sorted) - 1)), sorted[Len(sorted)])

RECURSIVE SortNum(_)
SortNum(s) ==
    IF s = <<>> THEN <<>> ELSE InsertNum(s[Len(s)], SortNum(SubSeq(s, 1, Len(s) - 1)))

\* ss.mean throws on an empty array: callers test CanMean first
ssMean(x) == SumSeq(x) \div Len(x)

\* ss.sampleVariance needs two data points: callers test CanSampleVariance first
CanSampleVariance(x) == Len(x) >= 2
ssSampleVariance(x) ==
    LET m == ssMean(x)
    IN  SumSeq(ArrayOf([i \in 1..Len(x) |-> Mul(x[i] - m, x[i] - m)])) \div (Len(x) - 1)

ssSampleStandardDeviation(x) == Sqrt(ssSampleVariance(x))

ssMedian(x) ==
    LET sorted == SortNum(x)
        n == Len(x)
    IN  IF n % 2 = 1 THEN sorted[(n + 1) \div 2]
        ELSE (sorted[n \div 2] + sorted[n \div 2 + 1]) \div 2

ssMedianAbsoluteDeviation(x) ==
    LET med == ssMedian(x)
    IN  ssMedian(ArrayOf([i \in 1..Len(x) |-> Abs(x[i] - med)]))

ssMin(x) == CHOOSE v \in {x[i] : i \in 1..Len(x)} : \A j \in 1..Len(x) : v <= x[j]

\* quantile(values, q), q in units of 1 / ProbScale
ProbScale == 10000
\* a quantile counted from the largest value down
QuantileFromTop(values, q) ==
    IF values = <<>> THEN NullNum
    ELSE LET sorted == SortNum(MapSafe(values))
             pos == (Len(sorted) - 1) * (ProbScale - q)
             base == pos \div ProbScale
             rest == pos % ProbScale
         IN  IF base + 2 <= Len(sorted)
             THEN sorted[base + 1] + (rest * (sorted[base + 2] - sorted[base + 1])) \div ProbScale
             ELSE sorted[base + 1]

quantile(values, q) ==
    IF values = <<>> THEN NullNum
    ELSE LET sorted == SortNum(MapSafe(values))
             pos == (Len(sorted) - 1) * q
             base == pos \div ProbScale
             rest == pos % ProbScale
         IN  IF base + 2 <= Len(sorted)
             THEN sorted[base + 1] + (rest * (sorted[base + 2] - sorted[base + 1])) \div ProbScale
             ELSE sorted[base + 1]

computeSkewness(values) ==
    IF Len(values) < 3 THEN NullNum
    ELSE LET mean == ssMean(values)
             std == ssSampleStandardDeviation(values)
             m3 == SumSeq(ArrayOf([i \in 1..Len(values) |->
                        Mul(Mul(values[i] - mean, values[i] - mean), values[i] - mean)]))
                   \div Len(values)
         IN  IF std = 0 THEN 0 ELSE Div(Div(Div(m3, std), std), std)

computeKurtosis(values) ==
    IF Len(values) < 4 THEN NullNum
    ELSE LET mean == ssMean(values)
             std == ssSampleStandardDeviation(values)
             m4 == SumSeq(ArrayOf([i \in 1..Len(values) |->
                        Mul(Mul(values[i] - mean, values[i] - mean),
                            Mul(values[i] - mean, values[i] - mean))]))
                   \div Len(values)
         IN  IF std = 0 THEN 0 ELSE Div(Div(Div(Div(m4, std), std), std), std) - 3 * Scale

computeJarqueBera(residuals) ==
    IF Len(residuals) < 5 THEN NullNum
    ELSE LET skew == OrElse(computeSkewness(residuals), 0)
             kurt == OrElse(computeKurtosis(residuals), 0)
         IN  (Len(residuals) * (Mul(skew, skew) + Mul(kurt, kurt) \div 4)) \div 6

\* the fields of computeSummaryStats that the pipeline reads
computeSummaryStats(values) ==
    IF values = <<>> THEN [n |-> 0, mean |-> NullNum, min |-> NullNum, std |-> NullNum,
                           cv |-> NullNum, skewness |-> NullNum]
    ELSE LET v == MapSafe(values)
             mean == ssMean(v)
             std == ssSampleStandardDeviation(v)
         IN  [n |-> Len(v), mean |-> mean, min |-> ssMin(v), std |-> std,
              cv |-> IF mean # 0 THEN Div(std, Abs(mean)) ELSE NullNum,
              skewness |-> computeSkewness(v)]

computeErrorMetrics(actual, predicted, baselineMAE) ==
    LET n == Min(Len(actual), Len(predicted))
    IN  IF n = 0 THEN [mae |-> NullNum, rmse |-> NullNum, smape |-> NullNum,
                       bias |-> NullNum, mase |-> NullNum]
        ELSE LET err == ArrayOf([i \in 1..n |-> safeFiniteNumber(actual[i]) - safeFiniteNumber(predicted[i])])
                 denom == ArrayOf([i \in 1..n |-> Abs(safeFiniteNumber(actual[i]))
                                          + Abs(safeFiniteNumber(predicted[i]))])
                 absSum == SumSeq(ArrayOf([i \in 1..n |-> Abs(err[i])]))
                 sqSum == SumSeq(ArrayOf([i \in 1..n |-> Mul(err[i], err[i])]))
                 smapeSum == SumSeq(ArrayOf([i \in 1..n |->
                                IF denom[i] = 0 THEN 0 ELSE Div(2 * Abs(err[i]), denom[i])]))
                 mae == absSum \div n
             IN  [mae |-> mae,
                  rmse |-> Sqrt(sqSum \div n),
                  smape |-> (smapeSum \div n) * 100,
                  bias |-> SumSeq(err) \div n,
                  mase |-> IF baselineMAE # NullNum /\ baselineMAE > 0
                           THEN Div(mae, baselineMAE) ELSE NullNum]

computeNaiveScale(values, seasonLength) ==
    IF Len(values) <= seasonLength THEN NullNum
    ELSE SumSeq(ArrayOf([i \in 1..(Len(values) - seasonLength) |->
                    Abs(values[i + seasonLength] - values[i])]))
         \div (Len(values) - seasonLength)


(***************************************************************************)
(* Transform and weekly seasonality                                        *)
(***************************************************************************)
\* Math.expm1(y), y >= 0: the series y + y^2/2! + y^3/3! + ...
RECURSIVE Expm1Terms(_, _, _)
Expm1Terms(y, term, k) ==
    IF term = 0 THEN 0 ELSE term + Expm1Terms(y, (term * y) \div (Scale * k), k + 1)

Expm1(y) ==
    IF y >= 0 THEN Expm1Terms(y, y, 2)
    ELSE 0 - Div(Expm1Terms(0 - y, 0 - y, 2), Expm1Terms(0 - y, 0 - y, 2) + Scale)

\* Math.log1p(x), x >= 0: the largest y with expm1(y) <= x, by bisection
Log1pMax == 10 * Scale
RECURSIVE Log1pBetween(_, _, _)
Log1pBetween(x, lo, hi) ==
    IF hi - lo <= 1 THEN lo
    ELSE LET mid == (lo + hi) \div 2
         IN  IF Expm1(mid) <= x THEN Log1pBetween(x, mid, hi) ELSE Log1pBetween(x, lo, mid)

Log1p(x) == Log1pBetween(x, 0, Log1pMax)

applyTransform(values, method) ==
    IF method = "log1p"
    THEN ArrayOf([i \in 1..Len(values) |-> Log1p(Max(0, safeFiniteNumber(values[i])))])
    ELSE MapSafe(values)

invertTransform(values, method) ==
    IF method = "log1p"
    THEN ArrayOf([i \in 1..Len(values) |-> Expm1(safeFiniteNumber(values[i]))])
    ELSE MapSafe(values)

SkewLimit == 125
CvLimit == 150
resolveTransformMethod(setting, summary) ==
    IF setting = "log1p" THEN "log1p"
    ELSE IF setting = "none" THEN "none"
    ELSE IF summary.n = 0 THEN "none"
    ELSE IF summary.min < 0 THEN "none"
    ELSE IF summary.skewness # NullNum /\ summary.skewness > SkewLimit THEN "log1p"
    ELSE IF summary.cv # NullNum /\ summary.cv > CvLimit THEN "log1p"
    ELSE "none"

\* seasonalEffect[dow + 1] is the code's seasonalEffect[dow]
computeWeeklySeasonality(dates, values) ==
    LET overallMean == ssMean(MapSafe(values))
        onDay(d) == {i \in 1..Len(dates) : dayOfWeekIndexUTC(dates[i]) = d}
        sumOn(d) == SumSeq(ArrayOf([i \in 1..Len(dates) |->
                        IF dayOfWeekIndexUTC(dates[i]) = d THEN safeFiniteNumber(values[i]) ELSE 0]))
    IN  ArrayOf([d1 \in 1..7 |->
            (IF onDay(d1 - 1) # {} THEN sumOn(d1 - 1) \div Cardinality(onDay(d1 - 1))
             ELSE overallMean) - overallMean])

NoSeasonalEffect == ArrayOf([d1 \in 1..7 |-> 0])

applyWeeklyDeseasonalize(dates, values, seasonalEffect) ==
    ArrayOf([i \in 1..Len(values) |->
        safeFiniteNumber(values[i]) - seasonalEffect[dayOfWeekIndexUTC(dates[i]) + 1]])

addWeeklyReseasonalize(dates, values, seasonalEffect) ==
    ArrayOf([i \in 1..Len(values) |->
        safeFiniteNumber(values[i]) + seasonalEffect[dayOfWeekIndexUTC(dates[i]) + 1]])

(***************************************************************************)
(* Forecast model library                                                  *)
(***************************************************************************)
\* a forecast that walks back from the last value, one day per step of the season
NaiveCountingBack(historyValues, horizon, seasonLength) ==
    LET y == MapSafe(historyValues)
        n == Len(y)
    IN  ArrayOf([k1 \in 1..horizon |->
            clampNonNegative(
                IF n >= seasonLength THEN y[n - ((k1 - 1) % seasonLength)]
                ELSE IF n >= 1 THEN y[n] ELSE 0)])

seasonalNaiveForecast(historyValues, horizon, seasonLength) ==
    LET y == MapSafe(historyValues)
        n == Len(y)
    IN  ArrayOf([k1 \in 1..horizon |->
            clampNonNegative(
                IF n >= seasonLength THEN y[n - seasonLength + ((k1 - 1) % seasonLength) + 1]
                ELSE IF n >= 1 THEN y[n] ELSE 0)])

driftForecast(historyValues, horizon) ==
    LET y == MapSafe(historyValues)
        n == Len(y)
        first == IF n >= 1 THEN y[1] ELSE 0
        last == IF n >= 1 THEN y[n] ELSE 0
        slope == IF n >= 2 THEN (last - first) \div (n - 1) ELSE 0
    IN  ArrayOf([k1 \in 1..horizon |-> clampNonNegative(last + slope * k1)])

RECURSIVE SesLevel(_, _, _)
SesLevel(y, i, alpha) ==
    IF i = 1 THEN y[1]
    ELSE Mul(alpha, y[i]) + Mul(Scale - alpha, SesLevel(y, i - 1, alpha))

\* an SES that forgets the level carried so far
SesWithoutLevel(historyValues, horizon, alpha) ==
    LET y == MapSafe(historyValues)
    IN  ArrayOf([k1 \in 1..horizon |->
            IF y = <<>> THEN 0 ELSE clampNonNegative(Mul(alpha, y[Len(y)]))])

sesForecast(historyValues, horizon, alpha) ==
    LET y == MapSafe(historyValues)
    IN  IF y = <<>> THEN ArrayOf([k1 \in 1..horizon |-> 0])
        ELSE ArrayOf([k1 \in 1..horizon |-> clampNonNegative(SesLevel(y, Len(y), alpha))])

\* the state <<level, trend>> after the loop has handled y[i]
RECURSIVE HoltState(_, _, _, _)
HoltState(y, i, alpha, beta) ==
    IF i = 1 THEN <<y[1], IF Len(y) > 1 THEN y[2] - y[1] ELSE 0>>
    ELSE LET prev == HoltState(y, i - 1, alpha, beta)
             level == Mul(alpha, y[i]) + Mul(Scale - alpha, prev[1] + prev[2])
         IN  <<level, Mul(beta, level - prev[1]) + Mul(Scale - beta, prev[2])>>

holtForecast(historyValues, horizon, alpha, beta) ==
    LET y == MapSafe(historyValues)
    IN  IF y = <<>> THEN ArrayOf([k1 \in 1..horizon |-> 0])
        ELSE LET st == HoltState(y, Len(y), alpha, beta)
             IN  ArrayOf([k1 \in 1..horizon |-> clampNonNegative(st[1] + k1 * st[2])])

zValueForConfidence(confidence) ==
    IF confidence >= 9950 THEN 280
    ELSE IF confidence >= 9900 THEN 257
    ELSE IF confidence >= 9750 THEN 224
    ELSE IF confidence >= 9500 THEN 196
    ELSE IF confidence >= 9000 THEN 164
    ELSE 128

\* delta / std of the windows before and after the 0-based index i
ChangeAt(dates, values, i, window) ==
    LET before == SubSeq(values, i - window + 1, i)
        after == SubSeq(values, i + 1, Min(i + window, Len(values)))
        meanBefore == ssMean(before)
        meanAfter == ssMean(after)
        std == ssSampleStandardDeviation(before \o after)
        delta == meanAfter - meanBefore
    IN  [index |-> i, date |-> dates[i + 1], delta |-> delta,
         z |-> IF std > 0 THEN (IF delta < 0 THEN 0 - Div(0 - delta, std) ELSE Div(delta, std))
               ELSE 0,
         beforeMean |-> meanBefore, afterMean |-> meanAfter]

\* candidates.sort((a, b) => Math.abs(b.z) - Math.abs(a.z)), one insertion of it
RECURSIVE InsertByEffect(_, _)
InsertByEffect(sorted, cand) ==
    IF sorted = <<>> THEN <<cand>>
    ELSE IF Abs(Head(sorted).z) >= Abs(cand.z)
    THEN <<Head(sorted)>> \o InsertByEffect(Tail(sorted), cand)
    ELSE <<cand>> \o sorted

RECURSIVE SortByEffect(_)
SortByEffect(cands) ==
    IF cands = <<>> THEN <<>>
    ELSE InsertByEffect(SortByEffect(SubSeq(cands, 1, Len(cands) - 1)), cands[Len(cands)])

\* selected.sort((a, b) => a.index - b.index)
RECURSIVE SortByIndex(_)
SortByIndex(points) ==
    IF points = <<>> THEN <<>>
    ELSE LET first == CHOOSE k \in DOMAIN points :
                          \A j \in DOMAIN points : points[k].index <= points[j].index
         IN  <<points[first]>>
             \o SortByIndex(SubSeq(points, 1, first - 1) \o SubSeq(points, first + 1, Len(points)))

\* a selection loop that takes every candidate
RECURSIVE SelectEvery(_, _, _, _, _)
SelectEvery(cands, k, selected, window, maxPoints) ==
    IF k > Len(cands) THEN selected
    ELSE IF Len(selected) + 1 >= maxPoints THEN Append(selected, cands[k])
    ELSE SelectEvery(cands, k + 1, Append(selected, cands[k]), window, maxPoints)

\* the selection loop from the candidate cands[k] on
RECURSIVE SelectFrom(_, _, _, _, _)
SelectFrom(cands, k, selected, window, maxPoints) ==
    IF k > Len(cands) THEN selected
    ELSE LET next == IF \A j \in DOMAIN selected :
                            Abs(selected[j].index - cands[k].index) > window
                     THEN Append(selected, cands[k]) ELSE selected
         IN  IF Len(next) >= maxPoints THEN next
             ELSE SelectFrom(cands, k + 1, next, window, maxPoints)

detectChangePoints(dates, values, window, zThreshold, maxPoints) ==
    LET n == Len(values)
        all == ArrayOf([i1 \in 1..(n - 2 * window + 1) |->
                   ChangeAt(dates, values, window + i1 - 1, window)])
        candidates == SelectSeq(all, LAMBDA c : Abs(c.z) >= zThreshold)
    IN  IF n < window * 2 + 1 THEN <<>>
        ELSE SortByIndex(SelectFrom(SortByEffect(candidates), 1, <<>>, window, maxPoints))

MadFactor == 148
detectAnomalies(dates, values, anomalyZ) ==
    LET y == MapSafe(values)
        n == Len(y)
        expected == ArrayOf([i \in 1..n |-> IF i >= 8 THEN y[i - 7] ELSE ssMean(SliceTo(y, Min(n, 7)))])
        residuals == ArrayOf([i \in 1..n |-> y[i] - expected[i]])
        mad == ssMedianAbsoluteDeviation(ArrayOf([i \in 1..n |-> Abs(residuals[i])]))
        robustSigma == Max(0, Mul(MadFactor, mad))
        \* residuals[i] / robustSigma, where the floor 1e-9 stands for a zero scale
        zOf(i) == IF robustSigma > 0 THEN Div(residuals[i], robustSigma)
                  ELSE IF residuals[i] > 0 THEN Infinity
                  ELSE IF residuals[i] < 0 THEN 0 - Infinity ELSE 0
        flagged == SelectSeq(ArrayOf([i \in 1..n |-> i]), LAMBDA i : Abs(zOf(i)) >= anomalyZ)
    IN  ArrayOf([j \in 1..Len(flagged) |->
            [index |-> flagged[j] - 1, date |-> dates[flagged[j]], actual |-> y[flagged[j]],
             expected |-> expected[flagged[j]], z |-> zOf(flagged[j])]])


(***************************************************************************)
(* Composite scores.  A score is rmse * 1e6 + lo, kept as its two parts    *)
(* [hi |-> rmse, lo |-> ...] so that the product stays in range.           *)
(***************************************************************************)
Million == 1000000

\* a.hi * 1e6 + a.lo < b.hi * 1e6 + b.lo
ScoreLess(a, b) == (a.hi - b.hi) + ((a.lo - b.lo) \div Million) < 0

scoreFromMetrics(metrics) ==
    [hi |-> OrElse(metrics.rmse, E18),
     lo |-> OrElse(metrics.mae, E18) + OrElse(metrics.smape, E18)]

\* candidates.reduce((best, cur) => !best || cur.score < best.score ? cur : best):
\* the first element that no element beats
FirstLowest(cands) ==
    CHOOSE i \in 1..Len(cands) :
        /\ \A j \in 1..Len(cands) : ~ScoreLess(cands[j].score, cands[i].score)
        /\ \A j \in 1..(i - 1) : ScoreLess(cands[i].score, cands[j].score)

(***************************************************************************)
(* The "arima" package, loaded by a dynamic import.  arimaLib says which   *)
(* package the import finds:                                               *)
(*   "missing"   the import rejects                                        *)
(*   "unstable"  train() throws for every order                            *)
(*   "fitted"    predict(l) returns [l predictions, errors]                *)
(*   "short"     as "fitted", but never more than ArimaMaxSteps predictions*)
(***************************************************************************)
ArimaLibs == {"missing", "unstable", "fitted", "short"}
ArimaMaxSteps == 7

ArimaTrainThrows(lib, p, d, q, train) == lib = "unstable" \/ p + d + q >= Len(train)

\* predict(l)[0] of an instance trained on `train`: the level (d = 0), the last
\* value (d = 1) or the last slope continued (d = 2)
ArimaPredict(lib, p, d, q, train, l) ==
    LET n == Len(train)
        steps == IF lib = "short" THEN Min(l, ArimaMaxSteps) ELSE l
    IN  ArrayOf([i \in 1..steps |->
            IF d = 0 THEN ssMean(train)
            ELSE IF d = 1 THEN train[n]
            ELSE train[n] + i * (train[n] - train[n - 1])])

\* loops that stop one short of maxQ
ArimaOrdersBelowMaxQ(maxP, maxD, maxQ) ==
    ArrayOf([i \in 1..((maxP + 1) * (maxD + 1) * maxQ) |->
        [p |-> (i - 1) \div ((maxD + 1) * maxQ),
         d |-> ((i - 1) \div maxQ) % (maxD + 1),
         q |-> (i - 1) % maxQ]])

\* the orders in the order of the three nested loops
ArimaOrders(maxP, maxD, maxQ) ==
    ArrayOf([i \in 1..((maxP + 1) * (maxD + 1) * (maxQ + 1)) |->
        [p |-> (i - 1) \div ((maxD + 1) * (maxQ + 1)),
         d |-> ((i - 1) \div (maxQ + 1)) % (maxD + 1),
         q |-> (i - 1) % (maxQ + 1)]])

arimaAutoForecast(lib, trainSeries, validationSeries, horizon, maxP, maxD, maxQ) ==
    IF lib = "missing" THEN [ok |-> FALSE, error |-> "Cannot find package 'arima'"]
    ELSE
    LET train == MapSafe(trainSeries)
        valid == MapSafe(validationSeries)
        k == Len(valid)
        orders == ArimaOrders(maxP, maxD, maxQ)
        \* the orders whose iteration reaches the comparison with best
        viable == SelectSeq(orders, LAMBDA o :
                      /\ ~ArimaTrainThrows(lib, o.p, o.d, o.q, train)
                      /\ Len(ArimaPredict(lib, o.p, o.d, o.q, train, k)) = k)
        fits == ArrayOf([i \in 1..Len(viable) |->
                    LET o == viable[i]
                        clipped == MapClamp(ArimaPredict(lib, o.p, o.d, o.q, train, k))
                        metrics == computeErrorMetrics(valid, clipped, NullNum)
                    IN  [p |-> o.p, d |-> o.d, q |-> o.q,
                         score |-> [hi |-> OrElse(metrics.rmse, Infinity),
                                    lo |-> OrElse(metrics.mae, Infinity)],
                         metrics |-> metrics,
                         validationPred |-> clipped]])
    IN  IF fits = <<>>
        THEN [ok |-> FALSE, error |-> "ARIMA grid search failed (no viable model found)"]
        ELSE LET best == fits[FirstLowest(fits)]
             IN  [ok |-> TRUE,
                  params |-> [p |-> best.p, d |-> best.d, q |-> best.q],
                  validationPred |-> best.validationPred,
                  futurePred |-> MapClamp(ArimaPredict(lib, best.p, best.d, best.q, train, horizon)),
                  metrics |-> best.metrics]


(***************************************************************************)
(* self.onmessage of the advanced worker, up to the ARIMA step             *)
(***************************************************************************)
MinHistory == 8
DefaultHorizon == 14
DefaultConfidence == 9500
DefaultAnomalyZ == 300
MaxHorizon == 365

\* Validate without the comparison of the two lengths
ValidateWithoutShape(msg) ==
    IF msg.requestId = 0 THEN "Missing requestId"
    ELSE IF Len(msg.dates) < MinHistory THEN "Not enough history (need at least 8 days)"
    ELSE "ok"

\* the checks at the head of the try block; dates and values are arrays here
Validate(msg) ==
    IF msg.requestId = 0 THEN "Missing requestId"
    ELSE IF Len(msg.dates) # Len(msg.values) THEN "dates/values mismatch"
    ELSE IF Len(msg.dates) < MinHistory THEN "Not enough history (need at least 8 days)"
    ELSE "ok"

\* Math.max(1, Math.min(365, Number(horizon) || 14))
SanitizeHorizon(horizon) ==
    Max(1, Min(MaxHorizon, IF horizon = 0 THEN DefaultHorizon ELSE horizon))

\* Array.from({ length }, (_, k) => formatYYYYMMDD(addDaysUTC(startDate, k + 1)))
FutureDates(startDate, length) ==
    ArrayOf([k1 \in 1..length |-> formatYYYYMMDD(addDaysUTC(startDate, k1))])

\* the closures reseasonalizeFuture and reseasonalizeValidation; l holds the
\* handler's constants that they capture
\* a reseasonalizeFuture that keys the effects by the dates from startDate on
ReseasonalizeFromStart(l, startDate, forecastValues) ==
    MapClamp(invertTransform(
        IF l.seasonalityEnabled
        THEN addWeeklyReseasonalize(
                 ArrayOf([k1 \in 1..Len(forecastValues) |->
                     formatYYYYMMDD(addDaysUTC(startDate, k1 - 1))]),
                 MapSafe(forecastValues), l.seasonalEffectModel)
        ELSE MapSafe(forecastValues),
        l.transformMethod))

reseasonalizeFuture(l, startDate, forecastValues) ==
    MapClamp(invertTransform(
        IF l.seasonalityEnabled
        THEN addWeeklyReseasonalize(FutureDates(startDate, Len(forecastValues)),
                                    MapSafe(forecastValues), l.seasonalEffectModel)
        ELSE MapSafe(forecastValues),
        l.transformMethod))

reseasonalizeValidation(l, datesForValidation, predValues) ==
    MapClamp(invertTransform(
        IF l.seasonalityEnabled
        THEN addWeeklyReseasonalize(datesForValidation, MapSafe(predValues),
                                    l.seasonalEffectModel)
        ELSE MapSafe(predValues),
        l.transformMethod))

\* a candidate list that outlives the handler: what the latest earlier handler
\* that got this far left in it
KeptCandidateResults(earlier) ==
    IF \E k \in 1..Len(earlier) : ~earlier[k].locals.failed
    THEN earlier[CHOOSE k \in 1..Len(earlier) :
                    /\ ~earlier[k].locals.failed
                    /\ \A n \in (k + 1)..Len(earlier) : earlier[n].locals.failed
                ].locals.candidateResults
    ELSE <<>>

\* const candidateResults = []
NewCandidateResults(earlier) == <<>>

\* a list that holds only the candidate added last
KeepLatestCandidate(candidateResults, candidate) ==
    <<[candidate EXCEPT !.score = scoreFromMetrics(candidate.metrics)]>>

addCandidate(candidateResults, candidate) ==
    Append(candidateResults,
           [candidate EXCEPT !.score = scoreFromMetrics(candidate.metrics)])

SesAlphaGrid == <<10, 20, 30, 40, 50, 60, 70, 80, 90>>
HoltAlphaGrid == <<20, 40, 60, 80>>
HoltBetaGrid == <<10, 20, 40, 60>>

\* a throw inside the try block: the stages run so far, and the Error's message
Thrown(stages, message) == [failed |-> TRUE, error |-> message, stages |-> stages]

\* The handler's constants are gathered in a record l, one group of fields per
\* step of the code.  sanitizedHorizon, selectedConfidence, z
Settings(msg) ==
    [failed |-> FALSE, error |-> "", stages |-> <<"validate">>,
     sanitizedHorizon |-> SanitizeHorizon(msg.horizon),
     selectedConfidence |-> IF msg.confidence = 0 THEN DefaultConfidence ELSE msg.confidence,
     z |-> zValueForConfidence(IF msg.confidence = 0 THEN DefaultConfidence
                               ELSE msg.confidence)]

\* 1) continuousDates, continuousValues, missingCount
ContinuousSeries(msg, l) == l @@ buildContinuousDailySeries(msg.dates, msg.values)

\* lastHistoryDate, summaryStats, transformMethod, seasonalityEnabled, seasonLength
Summary(msg, l) ==
    l @@ [lastHistoryDate |-> l.continuousDates[Len(l.continuousDates)],
          summaryStats |-> computeSummaryStats(l.continuousValues),
          transformMethod |-> resolveTransformMethod(msg.transform,
                                  computeSummaryStats(l.continuousValues)),
          seasonalityEnabled |-> msg.seasonality = "weekly",
          seasonLength |-> IF msg.seasonality = "weekly" THEN 7 ELSE 1]

\* notes, seasonalEffectOriginal, transformedValues
Transformed(l) ==
    l @@ [notes |-> << <<"Variance stabilization", l.transformMethod>>,
                       <<"Weekly seasonality", IF l.seasonalityEnabled THEN "ON" ELSE "OFF">> >>,
          seasonalEffectOriginal |->
              IF l.seasonalityEnabled
              THEN computeWeeklySeasonality(l.continuousDates, l.continuousValues)
              ELSE NoSeasonalEffect,
          transformedValues |-> applyTransform(l.continuousValues, l.transformMethod)]

\* seasonalEffectModel
SeasonalModel(l) ==
    l @@ [seasonalEffectModel |->
              IF l.seasonalityEnabled
              THEN computeWeeklySeasonality(l.continuousDates, l.transformedValues)
              ELSE NoSeasonalEffect]

\* modelInputValues
ModelInput(l) ==
    l @@ [modelInputValues |->
              IF l.seasonalityEnabled
              THEN applyWeeklyDeseasonalize(l.continuousDates, l.transformedValues,
                                            l.seasonalEffectModel)
              ELSE l.transformedValues]

\* 2) backtestWindow, trainSize
BacktestWindow(l) ==
    l @@ [backtestWindow |-> Min(Min(28, Max(7, (Len(l.modelInputValues) * 20) \div 100)),
                                 Len(l.modelInputValues) - 2),
          trainSize |-> Len(l.modelInputValues)
                        - Min(Min(28, Max(7, (Len(l.modelInputValues) * 20) \div 100)),
                              Len(l.modelInputValues) - 2)]

\* train, validation, trainTransformed, actualVal, validationDates, baselineMAE
Slices(l) ==
    [l EXCEPT !.stages = <<"validate", "preprocess", "backtest_window">>]
    @@ [train |-> SliceTo(l.modelInputValues, l.trainSize),
        validation |-> SliceFrom(l.modelInputValues, l.trainSize),
        trainTransformed |-> SliceTo(l.transformedValues, l.trainSize),
        actualVal |-> MapSafe(SliceFrom(l.continuousValues, l.trainSize)),
        validationDates |-> SliceFrom(l.continuousDates, l.trainSize),
        baselineMAE |-> computeNaiveScale(l.continuousValues, l.seasonLength)]

\* a candidate as it is handed to addCandidate
Candidate(id, label, params, validationPred, metrics, forecastFuture, forecastFutureDeseasonal) ==
    [id |-> id, label |-> label, params |-> params, validationPred |-> validationPred,
     metrics |-> metrics, forecastFuture |-> forecastFuture,
     forecastFutureDeseasonal |-> forecastFutureDeseasonal,
     score |-> NullNum, weight |-> NullNum]

\* a candidate whose metrics are those of its validation prediction
Scored(l, id, label, params, valPred, forecastFuture, forecastFutureDeseasonal) ==
    Candidate(id, label, params, valPred,
              computeErrorMetrics(l.actualVal, valPred, l.baselineMAE),
              forecastFuture, forecastFutureDeseasonal)

SeasonalNaiveFuture(l, futurePredTransformed) ==
    Scored(l, "seasonal_naive",
           IF l.seasonalityEnabled THEN "Seasonal Naive (Weekly)" ELSE "Naive (Last Value)",
           [seasonLength |-> l.seasonLength],
           MapClamp(invertTransform(
               seasonalNaiveForecast(l.trainTransformed, l.backtestWindow, l.seasonLength),
               l.transformMethod)),
           MapClamp(invertTransform(futurePredTransformed, l.transformMethod)),
           futurePredTransformed)

SeasonalNaiveCandidate(l) ==
    SeasonalNaiveFuture(l, seasonalNaiveForecast(l.transformedValues, l.sanitizedHorizon,
                                                 l.seasonLength))

DriftFuture(l, forecastFutureDeseasonal) ==
    Scored(l, "drift", "Drift (Trend)", [none |-> TRUE],
           reseasonalizeValidation(l, l.validationDates, driftForecast(l.train, l.backtestWindow)),
           reseasonalizeFuture(l, l.lastHistoryDate, forecastFutureDeseasonal),
           forecastFutureDeseasonal)

DriftCandidate(l) == DriftFuture(l, driftForecast(l.modelInputValues, l.sanitizedHorizon))

\* one pass of a grid loop: the validation prediction, its metrics and score
Trial(l, alpha, beta, valPred) ==
    [alpha |-> alpha, beta |-> beta, valPred |-> valPred,
     metrics |-> computeErrorMetrics(l.actualVal, valPred, l.baselineMAE),
     score |-> scoreFromMetrics(computeErrorMetrics(l.actualVal, valPred, l.baselineMAE))]

\* best after the loop: score < best.score replaces, so the first lowest stays
BestTrial(trials) == trials[FirstLowest(trials)]

SesTrials(l) ==
    ArrayOf([a \in 1..Len(SesAlphaGrid) |->
        Trial(l, SesAlphaGrid[a], 0,
              reseasonalizeValidation(l, l.validationDates,
                  sesForecast(l.train, l.backtestWindow, SesAlphaGrid[a])))])

SesFuture(l, best, forecastFutureDeseasonal) ==
    Candidate("ses", "SES (Level)", [alpha |-> best.alpha], best.valPred, best.metrics,
              reseasonalizeFuture(l, l.lastHistoryDate, forecastFutureDeseasonal),
              forecastFutureDeseasonal)

SesBest(l, best) ==
    SesFuture(l, best, sesForecast(l.modelInputValues, l.sanitizedHorizon, best.alpha))

SesCandidate(l) == SesBest(l, BestTrial(SesTrials(l)))

HoltTrials(l) ==
    ArrayOf([t \in 1..(Len(HoltAlphaGrid) * Len(HoltBetaGrid)) |->
        Trial(l, HoltAlphaGrid[(t - 1) \div Len(HoltBetaGrid) + 1],
              HoltBetaGrid[((t - 1) % Len(HoltBetaGrid)) + 1],
              reseasonalizeValidation(l, l.validationDates,
                  holtForecast(l.train, l.backtestWindow,
                               HoltAlphaGrid[(t - 1) \div Len(HoltBetaGrid) + 1],
                               HoltBetaGrid[((t - 1) % Len(HoltBetaGrid)) + 1])))])

HoltFuture(l, best, forecastFutureDeseasonal) ==
    Candidate("holt", "Holt (Trend + Level)", [alpha |-> best.alpha, beta |-> best.beta],
              best.valPred, best.metrics,
              reseasonalizeFuture(l, l.lastHistoryDate, forecastFutureDeseasonal),
              forecastFutureDeseasonal)

HoltBest(l, best) ==
    HoltFuture(l, best, holtForecast(l.modelInputValues, l.sanitizedHorizon,
                                     best.alpha, best.beta))

HoltCandidate(l) == HoltBest(l, BestTrial(HoltTrials(l)))

\* 3) candidateResults after the four models that need no import
Candidates(l, earlier) ==
    [l EXCEPT !.stages = <<"validate", "preprocess", "backtest_window", "candidates">>]
    @@ [candidateResults |->
            addCandidate(addCandidate(addCandidate(addCandidate(
                NewCandidateResults(earlier),
                SeasonalNaiveCandidate(l)), DriftCandidate(l)), SesCandidate(l)),
                HoltCandidate(l))]

\* the try block from computeSummaryStats on: ss.sampleStandardDeviation throws
\* on fewer than two values
AfterSeries(msg, l, earlier) ==
    IF ~CanSampleVariance(l.continuousValues)
    THEN Thrown(<<"validate", "preprocess">>, "sampleVariance requires at least two data points")
    ELSE Candidates(Slices(BacktestWindow(ModelInput(SeasonalModel(Transformed(
             Summary(msg, l)))))), earlier)

\* the handler up to the ARIMA step
Prepare(msg, earlier) ==
    IF Validate(msg) # "ok" THEN Thrown(<<"validate">>, Validate(msg))
    ELSE AfterSeries(msg, ContinuousSeries(msg, Settings(msg)), earlier)


(***************************************************************************)
(* self.onmessage after the ARIMA step                                     *)
(***************************************************************************)
\* a / b to `digits` more decimal digits, digit by digit
RECURSIVE LongDiv(_, _, _)
LongDiv(a, b, digits) ==
    IF digits = 0 THEN a \div b
    ELSE (a \div b) * (10 ^ digits) + LongDiv((a % b) * 10, b, digits - 1)

\* weights are kept in units of 1 / WeightScale; a positive weight stays positive
WeightDigits == 4
WeightScale == 10 ^ WeightDigits
\* 1 / 1e-9, at the range of the model's numbers
InverseOfFloor == 10000000
Tiny == 0

\* 1 / Math.max(rmse, 1e-9)
InverseRmse(rmse) == IF rmse <= Tiny THEN InverseOfFloor ELSE Max(1, Div(Scale, rmse))

IsWeightable(c) == c.metrics.rmse # NullNum

\* the two loops over weightable: c.weight = w, then c.weight / weightSum
AssignWeights(candidateResults) ==
    LET weightSum == SumSeq(ArrayOf([i \in 1..Len(candidateResults) |->
                        IF IsWeightable(candidateResults[i])
                        THEN InverseRmse(candidateResults[i].metrics.rmse) ELSE 0]))
    IN  ArrayOf([i \in 1..Len(candidateResults) |->
            IF IsWeightable(candidateResults[i])
            THEN [candidateResults[i] EXCEPT !.weight =
                    Max(1, LongDiv(InverseRmse(candidateResults[i].metrics.rmse),
                                   weightSum, WeightDigits))]
            ELSE candidateResults[i]])

IsEnsembleMember(c, backtestWindow, sanitizedHorizon) ==
    /\ IsWeightable(c)
    /\ Len(c.validationPred) = backtestWindow
    /\ Len(c.forecastFuture) = sanitizedHorizon
    /\ OrElse(c.weight, 0) > 0

\* a sum over the members of c.weight * c[field][i], the weights as they were
\* before normalizedWeight
SumByWeight(members, ensembleWeightSum, field, i) ==
    SumSeq(ArrayOf([m \in 1..Len(members) |->
        OrElse(members[m].weight, 0) * safeFiniteNumber(members[m][field][i])]))
    \div WeightScale

\* sum over the members of normalizedWeight(c) * c[field][i]; the division by
\* ensembleWeightSum is done once, on the sum
WeightedSum(members, ensembleWeightSum, field, i) ==
    SumSeq(ArrayOf([m \in 1..Len(members) |->
        OrElse(members[m].weight, 0) * safeFiniteNumber(members[m][field][i])]))
    \div ensembleWeightSum

EnsembleCandidate(members, backtestWindow, sanitizedHorizon, actualVal, baselineMAE) ==
    LET ensembleWeightSum == SumSeq(ArrayOf([m \in 1..Len(members) |-> OrElse(members[m].weight, 0)]))
        ensembleValPred == ArrayOf([i \in 1..backtestWindow |->
                               WeightedSum(members, ensembleWeightSum, "validationPred", i)])
        ensembleFuture == ArrayOf([i \in 1..sanitizedHorizon |->
                              WeightedSum(members, ensembleWeightSum, "forecastFuture", i)])
    IN  [id |-> "ensemble", label |-> "Ensemble (Weighted)",
         params |-> [models |-> Len(members)],
         validationPred |-> ensembleValPred,
         metrics |-> computeErrorMetrics(actualVal, ensembleValPred, baselineMAE),
         forecastFuture |-> ensembleFuture,
         forecastFutureDeseasonal |-> <<>>,
         score |-> NullNum, weight |-> NullNum]

\* candidateResults.find((c) => c.id === model), as an index; 0 when there is none
FindById(cands, id) ==
    IF \E i \in 1..Len(cands) : cands[i].id = id
    THEN CHOOSE i \in 1..Len(cands) :
            cands[i].id = id /\ \A j \in 1..(i - 1) : cands[j].id # id
    ELSE 0

\* "Pick best" without the lookup of the named model
PickBestByScore(cands, model) == IF cands = <<>> THEN 0 ELSE FirstLowest(cands)

\* "Pick best"
PickBest(cands, model) ==
    IF model # "auto" /\ FindById(cands, model) # 0 THEN FindById(cands, model)
    ELSE IF cands = <<>> THEN 0
    ELSE FirstLowest(cands)

\* .sort((a, b) => a.score - b.score), a stable sort
RECURSIVE InsertByScore(_, _)
InsertByScore(x, sorted) ==
    IF sorted = <<>> THEN <<x>>
    ELSE IF ~ScoreLess(x.score, sorted[Len(sorted)].score) THEN Append(sorted, x)
    ELSE Append(InsertByScore(x, SubSeq(sorted, 1, Len(sorted) - 1)), sorted[Len(sorted)])

\* a sort that puts an element before those of equal score
RECURSIVE InsertBeforeEqual(_, _)
InsertBeforeEqual(x, sorted) ==
    IF sorted = <<>> THEN <<x>>
    ELSE IF ScoreLess(sorted[Len(sorted)].score, x.score) THEN Append(sorted, x)
    ELSE Append(InsertBeforeEqual(x, SubSeq(sorted, 1, Len(sorted) - 1)), sorted[Len(sorted)])

RECURSIVE SortTiesReversed(_)
SortTiesReversed(s) ==
    IF s = <<>> THEN <<>>
    ELSE InsertBeforeEqual(s[Len(s)], SortTiesReversed(SubSeq(s, 1, Len(s) - 1)))

RECURSIVE SortByScore(_)
SortByScore(s) ==
    IF s = <<>> THEN <<>>
    ELSE InsertByScore(s[Len(s)], SortByScore(SubSeq(s, 1, Len(s) - 1)))

modelLeaderboardOf(candidateResults) ==
    SortByScore(ArrayOf([i \in 1..Len(candidateResults) |->
        [id |-> candidateResults[i].id, label |-> candidateResults[i].label,
         params |-> candidateResults[i].params, metrics |-> candidateResults[i].metrics,
         score |-> candidateResults[i].score, weight |-> candidateResults[i].weight]]))

JarqueBeraLimit == 599
MomentLimit == 100

\* the interval method, given the caller's setting and the residuals
\* an automatic setting that never looks at the residuals
IntervalNeverEmpirical(interval, backtestResiduals, qLow, qHigh) ==
    IF interval = "auto" THEN "normal" ELSE interval

IntervalMethod(interval, backtestResiduals, qLow, qHigh) ==
    LET jbStat == computeJarqueBera(backtestResiduals)
        residualSkew == computeSkewness(backtestResiduals)
        residualKurtosis == computeKurtosis(backtestResiduals)
        resolved ==
            IF interval # "auto" THEN interval
            ELSE IF jbStat # NullNum /\ jbStat > JarqueBeraLimit THEN "empirical"
            ELSE IF residualSkew # NullNum /\ Abs(residualSkew) > MomentLimit THEN "empirical"
            ELSE IF residualKurtosis # NullNum /\ Abs(residualKurtosis) > MomentLimit THEN "empirical"
            ELSE "normal"
    IN  IF resolved = "empirical" /\ (qLow = NullNum \/ qHigh = NullNum) THEN "normal"
        ELSE resolved

\* const ciLower = futureForecast.map(...); const ciUpper = futureForecast.map(...)
ciLowerOf(futureForecast, lowerOffset) ==
    ArrayOf([i \in 1..Len(futureForecast) |-> clampNonNegative(futureForecast[i] + lowerOffset)])
ciUpperOf(futureForecast, upperOffset) ==
    ArrayOf([i \in 1..Len(futureForecast) |-> clampNonNegative(futureForecast[i] + upperOffset)])


\* what stands for arimaResult when the model setting asks for no ARIMA
NoArima == [ok |-> FALSE, error |-> ""]

ArimaCandidate(l, arima) ==
    Scored(l, "arima", "ARIMA (Auto Grid Search)", arima.params,
           reseasonalizeValidation(l, l.validationDates, arima.validationPred),
           reseasonalizeFuture(l, l.lastHistoryDate, arima.futurePred),
           arima.futurePred)

\* the try/catch around await arimaAutoForecast: the candidate, or the reason
AfterArima(l, arima) ==
    [l EXCEPT !.stages = IF arima.ok \/ arima.error # "" THEN Append(@, "arima_import") ELSE @,
              !.candidateResults = IF arima.ok THEN addCandidate(@, ArimaCandidate(l, arima))
                                   ELSE @]
    @@ [arimaFailureReason |-> IF arima.ok THEN "" ELSE arima.error]

\* "Ensemble weighting": the weights
Weighted(l) == [l EXCEPT !.candidateResults = AssignWeights(@)]

EnsembleMembers(l) ==
    SelectSeq(l.candidateResults,
              LAMBDA c : IsEnsembleMember(c, l.backtestWindow, l.sanitizedHorizon))

\* "Ensemble weighting": the ensemble candidate
WithEnsemble(l) ==
    [l EXCEPT !.stages = Append(@, "ensemble"),
              !.candidateResults =
                  IF Len(EnsembleMembers(l)) >= 2
                  THEN addCandidate(@, EnsembleCandidate(EnsembleMembers(l), l.backtestWindow,
                                        l.sanitizedHorizon, l.actualVal, l.baselineMAE))
                  ELSE @]

\* "Pick best": the index of chosen, 0 for null
Picked(msg, l) ==
    [l EXCEPT !.stages = Append(@, "pick_best")]
    @@ [chosenAt |-> PickBest(l.candidateResults, msg.model)]

\* chosen, the ARIMA note, futureForecast
Chosen(l) ==
    [l EXCEPT !.notes = IF l.arimaFailureReason # ""
                        THEN Append(@, <<"ARIMA note", l.arimaFailureReason>>) ELSE @]
    @@ [chosen |-> l.candidateResults[l.chosenAt],
        futureForecast |-> l.candidateResults[l.chosenAt].forecastFuture]

\* 4) actualBacktest, predBacktest, backtestResiduals
Residuals(l) ==
    [l EXCEPT !.stages = Append(@, "interval")]
    @@ [actualBacktest |-> l.actualVal,
        predBacktest |-> MapSafe(l.chosen.validationPred),
        backtestResiduals |->
            ArrayOf([i \in 1..Len(l.actualVal) |->
                l.actualVal[i] - (IF i <= Len(l.chosen.validationPred)
                                  THEN safeFiniteNumber(l.chosen.validationPred[i]) ELSE 0)])]

\* sigma, robustSigma, qLow, qHigh
Spread(l) ==
    l @@ [sigma |-> Max(Tiny, ssSampleStandardDeviation(l.backtestResiduals)),
          robustSigma |-> Max(Tiny, Mul(MadFactor,
                                        ssMedianAbsoluteDeviation(l.backtestResiduals))),
          qLow |-> quantile(l.backtestResiduals, (ProbScale - l.selectedConfidence) \div 2),
          qHigh |-> quantile(l.backtestResiduals,
                             ProbScale - (ProbScale - l.selectedConfidence) \div 2)]

\* intervalMethod, sigmaForInterval
Interval(msg, l) ==
    l @@ [intervalMethod |-> IntervalMethod(msg.interval, l.backtestResiduals, l.qLow, l.qHigh),
          sigmaForInterval |-> Max(l.sigma, l.robustSigma)]

\* lowerOffset, upperOffset
Offsets(l) ==
    l @@ [lowerOffset |-> IF l.intervalMethod = "empirical" THEN l.qLow
                          ELSE 0 - Mul(l.z, l.sigmaForInterval),
          upperOffset |-> IF l.intervalMethod = "empirical" THEN l.qHigh
                          ELSE Mul(l.z, l.sigmaForInterval)]

\* the object handed to self.postMessage
Assemble(msg, l) ==
    [requestId |-> msg.requestId,
     historyDates |-> l.continuousDates,
     historyValues |-> MapClamp(l.continuousValues),
     selectedModel |-> [id |-> l.chosen.id, label |-> l.chosen.label, params |-> l.chosen.params],
     forecastDates |-> FutureDates(l.lastHistoryDate, l.sanitizedHorizon),
     forecast |-> l.futureForecast,
     ciLower |-> ciLowerOf(l.futureForecast, l.lowerOffset),
     ciUpper |-> ciUpperOf(l.futureForecast, l.upperOffset),
     sigma |-> l.sigmaForInterval,
     interval |-> [method |-> l.intervalMethod, sigma |-> l.sigmaForInterval,
                   robustSigma |-> l.robustSigma,
                   quantiles |-> [low |-> l.qLow, high |-> l.qHigh], z |-> l.z],
     transform |-> [setting |-> msg.transform, method |-> l.transformMethod],
     backtest |-> [window |-> l.backtestWindow, dates |-> l.validationDates,
                   actual |-> MapClamp(l.actualBacktest),
                   predicted |-> MapClamp(l.predBacktest),
                   metrics |-> l.chosen.metrics],
     anomalies |-> detectAnomalies(l.continuousDates, l.continuousValues,
                       IF msg.anomalyZ = 0 THEN DefaultAnomalyZ ELSE msg.anomalyZ),
     notes |-> Append(l.notes, <<"Interval method", l.intervalMethod>>),
     analysis |-> [summary |-> [n |-> l.summaryStats.n, mean |-> l.summaryStats.mean,
                                std |-> l.summaryStats.std,
                                missingDays |-> l.missingCount,
                                startDate |-> l.continuousDates[1],
                                endDate |-> l.lastHistoryDate],
                   seasonality |-> [enabled |-> l.seasonalityEnabled,
                                    weeklyProfile |-> l.seasonalEffectOriginal],
                   residualDiagnostics |->
                       [bias |-> l.chosen.metrics.bias, rmse |-> l.chosen.metrics.rmse,
                        mae |-> l.chosen.metrics.mae, smape |-> l.chosen.metrics.smape,
                        mase |-> l.chosen.metrics.mase,
                        jarqueBera |-> computeJarqueBera(l.backtestResiduals)]],
     modelLeaderboard |-> modelLeaderboardOf(l.candidateResults)]

\* from the residuals on: ss.sampleStandardDeviation throws on fewer than two
AfterResiduals(msg, l) ==
    IF ~CanSampleVariance(l.backtestResiduals)
    THEN [stages |-> l.stages, result |-> Null,
          thrown |-> "sampleVariance requires at least two data points"]
    ELSE [stages |-> l.stages \o <<"analysis", "assemble">>, thrown |-> "",
          result |-> Assemble(msg, Offsets(Interval(msg, Spread(l))))]

\* from "if (!chosen) throw" on
AfterPick(msg, l) ==
    IF l.chosenAt = 0
    THEN [stages |-> l.stages, result |-> Null,
          thrown |-> "No forecasting candidates available"]
    ELSE AfterResiduals(msg, Residuals(Chosen(l)))

\* from the ARIMA candidate to the result object; arima is what the awaited
\* arimaAutoForecast gave (NoArima when the model setting asks for no ARIMA);
\* thrown is the message of the Error thrown on the way, "" when none is
Finish(msg, l, arima) == AfterPick(msg, Picked(msg, WithEnsemble(Weighted(AfterArima(l, arima)))))


(***************************************************************************)
(* The messages the callers post                                           *)
(***************************************************************************)
\* length consecutive days, the first being the day after startDate
DaysAfter(startDate, length) == FutureDates(startDate, length)
Units(values) == ArrayOf([i \in 1..Len(values) |-> values[i] * Scale])

FirstDay == <<2024, 2, 23>>
Day(k) == formatYYYYMMDD(addDaysUTC(FirstDay, k))

Flat == [dates |-> DaysAfter(FirstDay, 8), values |-> Units(<<5, 5, 5, 5, 5, 5, 5, 5>>)]
Rising == [dates |-> DaysAfter(FirstDay, 8), values |-> Units(<<1, 2, 3, 4, 5, 6, 7, 8>>)]
Falling == [dates |-> DaysAfter(FirstDay, 8), values |-> Units(<<8, 7, 6, 5, 4, 3, 2, 1>>)]
Zigzag == [dates |-> DaysAfter(FirstDay, 9), values |-> Units(<<6, 3, 7, 2, 6, 3, 7, 2, 4>>)]
Unsorted == [dates |-> <<Day(10), Day(1), Day(2), Day(3), Day(5), Day(4), Day(7), Day(8), Day(9)>>,
             values |-> <<400, 100, 200, NaN, 300, 300, 200, 500, 400>>]
Skewed == [dates |-> DaysAfter(FirstDay, 9), values |-> Units(<<0, 0, 0, 0, 9, 0, 0, 1, 0>>)]
ThreeDays == [dates |-> <<Day(1), Day(1), Day(2), Day(2), Day(3), Day(3), Day(1), Day(2)>>,
              values |-> Units(<<1, 2, 3, 4, 5, 6, 7, 8>>)]
OneDay == [dates |-> <<Day(1), Day(1), Day(1), Day(1), Day(1), Day(1), Day(1), Day(1)>>,
           values |-> Units(<<1, 2, 3, 4, 5, 6, 7, 8>>)]
TwoDays == [dates |-> <<Day(1), Day(1), Day(2), Day(2), Day(1), Day(1), Day(2), Day(2)>>,
            values |-> Units(<<1, 2, 3, 4, 5, 6, 7, 8>>)]
TooShort == [dates |-> DaysAfter(FirstDay, 7), values |-> Units(<<1, 2, 3, 4, 5, 6, 7>>)]
Mismatch == [dates |-> DaysAfter(FirstDay, 8), values |-> Units(<<1, 2, 3, 4, 5, 6, 7>>)]

\* what the caller sends beside model and interval: the series, and the settings
\* that decide how it is preprocessed
InputCases ==
    { [series |-> Flat, horizon |-> 0, confidence |-> 0, seasonality |-> "none", transform |-> "none"],
      [series |-> Rising, horizon |-> 3, confidence |-> 9500, seasonality |-> "none", transform |-> "none"],
      [series |-> Falling, horizon |-> 1, confidence |-> 9900, seasonality |-> "none", transform |-> "auto"],
      [series |-> Zigzag, horizon |-> 8, confidence |-> 9500, seasonality |-> "weekly", transform |-> "log1p"],
      [series |-> Unsorted, horizon |-> 3, confidence |-> 9000, seasonality |-> "weekly", transform |-> "auto"],
      [series |-> Skewed, horizon |-> 8, confidence |-> 8000, seasonality |-> "none", transform |-> "auto"],
      [series |-> ThreeDays, horizon |-> 3, confidence |-> 9500, seasonality |-> "none", transform |-> "none"],
      [series |-> TwoDays, horizon |-> 3, confidence |-> 9500, seasonality |-> "none", transform |-> "auto"],
      [series |-> OneDay, horizon |-> 3, confidence |-> 9500, seasonality |-> "weekly", transform |-> "auto"],
      [series |-> TooShort, horizon |-> 3, confidence |-> 9500, seasonality |-> "weekly", transform |-> "auto"],
      [series |-> Mismatch, horizon |-> 3, confidence |-> 9500, seasonality |-> "none", transform |-> "none"] }

ModelSettings == {"auto", "seasonal_naive", "drift", "ses", "holt", "arima", "ensemble"}
IntervalSettings == {"auto", "normal", "empirical"}

\* event.data of a request
Message(id, case, mdl, iv) ==
    [requestId |-> id, dates |-> case.series.dates, values |-> case.series.values,
     horizon |-> case.horizon, confidence |-> case.confidence, anomalyZ |-> DefaultAnomalyZ,
     seasonality |-> case.seasonality, model |-> mdl, transform |-> case.transform,
     interval |-> iv]

(***************************************************************************)
(* The advanced worker                                                     *)
(***************************************************************************)
Received == Len(inbox) + Len(inv)

\* the caller posts a message; limit bounds the messages of a behaviour
Post(m, limit) ==
    /\ Received < limit
    /\ inbox' = Append(inbox, m)
    /\ UNCHANGED <<arimaLib, inv, outbox, seriesVars, dispVars>>

WantsArima(msg) == msg.model = "auto" \/ msg.model = "arima"

\* a requestId kept outside the handler: the one of the latest message received
LatestRequestId(invs, i) == invs[Len(invs)].msg.requestId

\* the requestId of the handler's closure: the one destructured from its event
ResponseId(invs, i) == invs[i].msg.requestId

\* a catch block that posts nothing
CatchSwallows(requestId, message) == <<>>

\* the catch block: what it posts
CatchBlock(requestId, message) == <<[requestId |-> requestId, error |-> message]>>

\* the invocation record of a handler that has reached `pc`, having posted `posts`
Invocation(msg, pc, l, stages, posts) ==
    [msg |-> msg, pc |-> pc, stages |-> stages, locals |-> l,
     posted |-> IF posts = <<>> THEN 0 ELSE Len(outbox) + 1]

\* the rest of handler i: the stages it runs and what it posts
Responds(invs, i, done) ==
    [stages |-> done.stages,
     posts |-> IF done.thrown # "" THEN CatchBlock(ResponseId(invs, i), done.thrown)
               ELSE <<[done.result EXCEPT !.requestId = ResponseId(invs, i)]>>]

Respond(invs, i, arima) == Responds(invs, i, Finish(invs[i].msg, invs[i].locals, arima))

\* handler i has run the stages r.stages and posted r.posts, and is done
Posted(invs, i, r) ==
    /\ inv' = [invs EXCEPT ![i] = Invocation(invs[i].msg, "done", invs[i].locals,
                                             r.stages, r.posts)]
    /\ outbox' = outbox \o r.posts

\* handler i runs from the ARIMA step to its end
Completed(invs, i, arima) == Posted(invs, i, Respond(invs, i, arima))

\* handler i, thrown out of the steps before ARIMA, runs the catch block
Caught(invs, i) ==
    Posted(invs, i, [stages |-> invs[i].locals.stages,
                     posts |-> CatchBlock(ResponseId(invs, i), invs[i].locals.error)])

\* the handler of msg, its constants being l, up to its first suspension or its end
Handle(msg, l) ==
    IF l.failed THEN Caught(Append(inv, [msg |-> msg, locals |-> l]), Len(inv) + 1)
    ELSE IF WantsArima(msg)
    THEN /\ inv' = Append(inv, Invocation(msg, "await_arima", l, l.stages, <<>>))
         /\ UNCHANGED outbox
    ELSE Completed(Append(inv, [msg |-> msg, locals |-> l]), Len(inv) + 1, NoArima)

\* self.onmessage, for the message at the head of the worker's queue
OnMessage ==
    /\ inbox # <<>>
    /\ Handle(Head(inbox), Prepare(Head(inbox), inv))
    /\ inbox' = Tail(inbox)
    /\ UNCHANGED <<arimaLib, seriesVars, dispVars>>

\* the awaited promise of handler i settles and the handler runs to its end
ArimaSettles(i) ==
    /\ inv[i].pc = "await_arima"
    /\ Completed(inv, i, arimaAutoForecast(arimaLib, inv[i].locals.train,
                             inv[i].locals.validation, inv[i].locals.sanitizedHorizon, 3, 2, 3))
    /\ UNCHANGED <<arimaLib, inbox, seriesVars, dispVars>>

SeriesIdle == sIn = [dates |-> <<>>, values |-> <<>>] /\ sOut = <<>>
WorkerIdle == inbox = <<>> /\ inv = <<>> /\ outbox = <<>>
DispIdle ==
    /\ config = Unset /\ runs = <<>> /\ cache = <<>>
    /\ result = <<>> /\ error = Null /\ loading = FALSE

(***************************************************************************)
(* Spec: the worker and one caller, who posts up to MaxMessages messages:  *)
(* the first is any request, the ones after it are drawn from FollowUps    *)
(***************************************************************************)
MaxMessages == 1

Init ==
    /\ arimaLib \in ArimaLibs
    /\ WorkerIdle /\ SeriesIdle /\ DispIdle

Requests ==
    {m \in {Message(id, case, mdl, iv) :
                id \in {0, 1}, case \in InputCases, mdl \in ModelSettings,
                iv \in IntervalSettings} :
        m.requestId = 0 => (m.model = "auto" /\ m.interval = "auto")}

\* the requests sent while or after another one is handled
FollowUps ==
    {m \in Requests :
        /\ m.requestId = 1
        /\ \/ m.values = Rising.values /\ m.model = "auto" /\ m.interval = "auto"
           \/ m.values = Skewed.values /\ m.model = "arima" /\ m.interval = "empirical"
           \/ m.values = Flat.values /\ m.model = "ses" /\ m.interval = "normal"
           \/ m.dates = TooShort.dates /\ m.model = "auto" /\ m.interval = "auto"}

\* the caller numbers the requests it sends after the first
Numbered(m) == [m EXCEPT !.requestId = Received + 1]

PostRequest ==
    \E m \in (IF Received = 0 THEN Requests ELSE FollowUps) :
        Post(IF Received = 0 THEN m ELSE Numbered(m), MaxMessages)

Next ==
    \/ PostRequest
    \/ OnMessage
    \/ \E i \in 1..Len(inv) : ArimaSettles(i)

Spec == Init /\ [][Next]_vars

(***************************************************************************)
(* Properties of the responses                                             *)
(***************************************************************************)
ResultFields ==
    {"requestId", "historyDates", "historyValues", "selectedModel", "forecastDates",
     "forecast", "ciLower", "ciUpper", "sigma", "interval", "transform", "backtest",
     "anomalies", "notes", "analysis", "modelLeaderboard"}
ErrorFields == {"requestId", "error"}

IsResult(p) == DOMAIN p = ResultFields
IsError(p) == DOMAIN p = ErrorFields

Done(i) == inv[i].pc = "done"
\* the response that handler i posted
ResponseOf(i) == outbox[inv[i].posted]
\* handler i has finished and posted a result object
Answered(i) == Done(i) /\ inv[i].posted \in DOMAIN outbox /\ IsResult(ResponseOf(i))

\* C1: a finished handler has posted exactly one message and an unfinished one
\* none; every posted message is either a result object with all its fields or
\* an object of requestId and a non-empty error string, whatever stage failed.
C1_ExactlyOneResponse ==
    /\ \A i \in DOMAIN inv : Done(i) <=> inv[i].posted \in DOMAIN outbox
    /\ \A i, j \in DOMAIN inv : (Done(i) /\ Done(j) /\ i # j) => inv[i].posted # inv[j].posted
    /\ Len(outbox) = Cardinality({i \in DOMAIN inv : Done(i)})
    /\ \A k \in DOMAIN outbox :
          \/ IsResult(outbox[k])
          \/ IsError(outbox[k]) /\ outbox[k].error # ""

\* C1 witness: a handler that went through the ARIMA step has posted a result,
\* and it is the only message posted
C1_Witness ==
    \E i \in DOMAIN inv :
        /\ Answered(i)
        /\ \E k \in DOMAIN inv[i].stages : inv[i].stages[k] = "arima_import"
        /\ Len(outbox) = 1

\* C2: a message whose dates and values differ in length, or that has fewer
\* than 8 pairs, gets an error response, and its handler ran no stage after the
\* validation: it holds no constant of a later stage.
C2_ValidationStops ==
    \A i \in DOMAIN inv :
        (Len(inv[i].msg.dates) # Len(inv[i].msg.values) \/ Len(inv[i].msg.dates) < 8)
        => /\ Done(i)
           /\ inv[i].posted \in DOMAIN outbox
           /\ IsError(ResponseOf(i))
           /\ inv[i].stages = <<"validate">>
           /\ DOMAIN inv[i].locals = {"failed", "error", "stages"}

\* C2 witness: a handler has answered a message of 8 dates and 7 values
C2_Witness ==
    \E i \in DOMAIN inv :
        /\ Len(inv[i].msg.dates) = 8 /\ Len(inv[i].msg.values) = 7
        /\ inv[i].msg.requestId # 0
        /\ Done(i) /\ IsError(ResponseOf(i))

\* C3: in every result for a horizon in 1..365, forecast, ciLower, ciUpper and
\* forecastDates all have exactly horizon entries.
C3_LengthsEqualHorizon ==
    \A i \in DOMAIN inv :
        (Answered(i) /\ inv[i].msg.horizon \in 1..365)
        => /\ Len(ResponseOf(i).forecast) = inv[i].msg.horizon
           /\ Len(ResponseOf(i).ciLower) = inv[i].msg.horizon
           /\ Len(ResponseOf(i).ciUpper) = inv[i].msg.horizon
           /\ Len(ResponseOf(i).forecastDates) = inv[i].msg.horizon

\* C4: in every result, at every index, ciLower <= forecast <= ciUpper and
\* the three values are >= 0.
C4_IntervalBrackets ==
    \A i \in DOMAIN inv :
        Answered(i)
        => \A k \in DOMAIN ResponseOf(i).forecast :
               /\ 0 <= ResponseOf(i).ciLower[k]
               /\ ResponseOf(i).ciLower[k] <= ResponseOf(i).forecast[k]
               /\ ResponseOf(i).forecast[k] <= ResponseOf(i).ciUpper[k]

\* the named model is among the candidates that the result lists
NamedPresent(i) ==
    /\ inv[i].msg.model # "auto"
    /\ \E k \in DOMAIN ResponseOf(i).modelLeaderboard :
           ResponseOf(i).modelLeaderboard[k].id = inv[i].msg.model

\* C9: when the caller names a model and a candidate of that id was produced,
\* it is the selected one; otherwise the selected candidate is one that no
\* produced candidate beats on rmse * 1e6 + mae + smape.
C9_ModelChoice ==
    \A i \in DOMAIN inv :
        Answered(i)
        => IF NamedPresent(i)
           THEN ResponseOf(i).selectedModel.id = inv[i].msg.model
           ELSE \E k \in DOMAIN ResponseOf(i).modelLeaderboard :
                  /\ ResponseOf(i).modelLeaderboard[k].id = ResponseOf(i).selectedModel.id
                  /\ \A j \in DOMAIN ResponseOf(i).modelLeaderboard :
                        (ResponseOf(i).modelLeaderboard[k].metrics.rmse
                           - ResponseOf(i).modelLeaderboard[j].metrics.rmse) * Million
                        + (ResponseOf(i).modelLeaderboard[k].metrics.mae
                           + ResponseOf(i).modelLeaderboard[k].metrics.smape)
                        - (ResponseOf(i).modelLeaderboard[j].metrics.mae
                           + ResponseOf(i).modelLeaderboard[j].metrics.smape) <= 0

\* C9 witness: the named model was selected although another candidate has a
\* lower score
C9_Witness ==
    \E i \in DOMAIN inv :
        /\ Answered(i) /\ NamedPresent(i)
        /\ ResponseOf(i).selectedModel.id = inv[i].msg.model
        /\ ResponseOf(i).modelLeaderboard[1].id # inv[i].msg.model
        /\ \E k \in DOMAIN ResponseOf(i).modelLeaderboard :
              /\ ResponseOf(i).modelLeaderboard[k].id = inv[i].msg.model
              /\ ScoreLess(ResponseOf(i).modelLeaderboard[1].score,
                           ResponseOf(i).modelLeaderboard[k].score)

\* C10: modelLeaderboard is in ascending order of score; selectedModel.id is
\* the named model's id when the leaderboard holds it, and the id of the first
\* entry otherwise.
C10_Leaderboard ==
    \A i \in DOMAIN inv :
        Answered(i)
        => /\ \A j, k \in DOMAIN ResponseOf(i).modelLeaderboard :
                 j < k => ~ScoreLess(ResponseOf(i).modelLeaderboard[k].score,
                                     ResponseOf(i).modelLeaderboard[j].score)
           /\ ResponseOf(i).selectedModel.id =
                 IF NamedPresent(i) THEN inv[i].msg.model
                 ELSE ResponseOf(i).modelLeaderboard[1].id

\* C10 witness: an automatic selection among candidates of which the first
\* two have the same score
C10_Witness ==
    \E i \in DOMAIN inv :
        /\ Answered(i) /\ inv[i].msg.model = "auto"
        /\ Len(ResponseOf(i).modelLeaderboard) >= 2
        /\ ResponseOf(i).modelLeaderboard[1].score = ResponseOf(i).modelLeaderboard[2].score
        /\ ResponseOf(i).selectedModel.id = ResponseOf(i).modelLeaderboard[1].id

(***************************************************************************)
(* Properties of the candidates behind a result                            *)
(***************************************************************************)
\* what the awaited arimaAutoForecast gave handler i
ArimaOf(i) ==
    IF WantsArima(inv[i].msg)
    THEN arimaAutoForecast(arimaLib, inv[i].locals.train, inv[i].locals.validation,
                           inv[i].locals.sanitizedHorizon, 3, 2, 3)
    ELSE NoArima

\* the constants of handler i when it reaches "Pick best"
AtPick(i) == WithEnsemble(Weighted(AfterArima(inv[i].locals, ArimaOf(i))))

\* the constants of handler i when it reaches "Ensemble weighting", weights assigned
AtEnsemble(i) == Weighted(AfterArima(inv[i].locals, ArimaOf(i)))

HasEnsemble(i) ==
    \E k \in DOMAIN ResponseOf(i).modelLeaderboard :
        ResponseOf(i).modelLeaderboard[k].id = "ensemble"

\* the weight the leaderboard of result i reports for the candidate of this id
ReportedWeight(i, id) ==
    ResponseOf(i).modelLeaderboard[
        CHOOSE k \in DOMAIN ResponseOf(i).modelLeaderboard :
            ResponseOf(i).modelLeaderboard[k].id = id].weight

\* the candidates the ensemble of handler i combines
MembersOf(i) == EnsembleMembers(AtEnsemble(i))

\* C11: when a result holds the ensemble candidate, the weights that the
\* leaderboard reports for the candidates the ensemble combines are each > 0
\* and sum to 1, up to the rounding of one unit per candidate.
C11_WeightsSumToOne ==
    \A i \in DOMAIN inv :
        (Answered(i) /\ HasEnsemble(i))
        => /\ \A m \in DOMAIN MembersOf(i) :
                 /\ ReportedWeight(i, MembersOf(i)[m].id) # NullNum
                 /\ ReportedWeight(i, MembersOf(i)[m].id) > 0
           /\ Abs(SumSeq(ArrayOf([m \in DOMAIN MembersOf(i) |->
                       ReportedWeight(i, MembersOf(i)[m].id)])) - WeightScale)
                  <= Len(MembersOf(i))

\* handler i got to the ARIMA step and the step failed: the import, or every order
ArimaFailed(i) ==
    /\ WantsArima(inv[i].msg)
    /\ ~inv[i].locals.failed
    /\ ~ArimaOf(i).ok

HasWindow(i) == ~inv[i].locals.failed
ContinuousLength(i) == Len(inv[i].locals.modelInputValues)

OtherCandidates(i) == AtEnsemble(i).candidateResults
\* those of the candidates `others` with a finite RMSE, a validation array of
\* the window's length and a forecast array of the horizon's length
Qualifying(others, backtestWindow, sanitizedHorizon) ==
    {k \in DOMAIN others :
        /\ IsFiniteNumber(others[k].metrics.rmse)
        /\ Len(others[k].validationPred) = backtestWindow
        /\ Len(others[k].forecastFuture) = sanitizedHorizon}
\* the ensemble candidate among cands
EnsembleOf(cands) == cands[CHOOSE k \in DOMAIN cands : cands[k].id = "ensemble"]
\* the sum of weight * value over the candidates of `others` in the set q, over
\* the sum of their weights
CombinedAt(others, q, field, j) ==
    SumSeq(ArrayOf([k \in DOMAIN others |->
        IF k \in q THEN others[k].weight * others[k][field][j] ELSE 0]))
    \div SumSeq(ArrayOf([k \in DOMAIN others |-> IF k \in q THEN others[k].weight ELSE 0]))

\* C20: a result has the ensemble candidate exactly when at least 2 other
\* candidates have a finite RMSE, a validation array of the backtest window's
\* length and a forecast array of the horizon's length; its members are those
\* candidates, and each of its validation and forecast values is the weighted
\* sum of the members' values at that index.
C20_Ensemble ==
    \A i \in DOMAIN inv : Answered(i) =>
        LET others == OtherCandidates(i)
            window == inv[i].locals.backtestWindow
            horizon == inv[i].locals.sanitizedHorizon
            q == Qualifying(others, window, horizon)
            members == MembersOf(i)
        IN  /\ HasEnsemble(i) <=> Cardinality(q) >= 2
            /\ HasEnsemble(i) =>
                  LET ensemble == EnsembleOf(AtPick(i).candidateResults)
                  IN  /\ {members[m].id : m \in DOMAIN members} = {others[k].id : k \in q}
                      /\ Len(members) = Cardinality(q)
                      /\ ensemble.params.models = Cardinality(q)
                      /\ Len(ensemble.validationPred) = window
                      /\ Len(ensemble.forecastFuture) = horizon
                      /\ \A j \in 1..window :
                            ensemble.validationPred[j] = CombinedAt(others, q, "validationPred", j)
                      /\ \A j \in 1..horizon :
                            ensemble.forecastFuture[j] = CombinedAt(others, q, "forecastFuture", j)

\* a result with the ensemble and an ARIMA candidate that is not one of its members
C20_Witness ==
    \E i \in DOMAIN inv :
        /\ Answered(i)
        /\ HasEnsemble(i)
        /\ Cardinality(Qualifying(OtherCandidates(i), inv[i].locals.backtestWindow,
                                   inv[i].locals.sanitizedHorizon))
               < Len(OtherCandidates(i))

\* the backtest residuals of the candidate handler i chose
ResidualsOf(i) == Residuals(Chosen(Picked(inv[i].msg, AtPick(i)))).backtestResiduals
\* the residuals do not look normal: Jarque-Bera > 5.99, |skewness| > 1 or
\* |excess kurtosis| > 1, a statistic that is null counting as not above
LooksSkewed(residuals) ==
    \/ computeJarqueBera(residuals) # NullNum /\ computeJarqueBera(residuals) > 599
    \/ computeSkewness(residuals) # NullNum /\ Abs(computeSkewness(residuals)) > 100
    \/ computeKurtosis(residuals) # NullNum /\ Abs(computeKurtosis(residuals)) > 100

MaxConcurrent == 2

PostConcurrent == \E m \in FollowUps : Post(Numbered(m), MaxConcurrent)

NextConcurrent ==
    \/ PostConcurrent
    \/ OnMessage
    \/ \E i \in 1..Len(inv) : ArimaSettles(i)

SpecConcurrent == Init /\ [][NextConcurrent]_vars

\* what the worker posts for msg when msg is the only message it ever receives
AloneFrom(msg, l) ==
    IF l.failed THEN CatchBlock(msg.requestId, l.error)
    ELSE Respond(<<[msg |-> msg, locals |-> l]>>, 1,
                 IF WantsArima(msg)
                 THEN arimaAutoForecast(arimaLib, l.train, l.validation,
                                        l.sanitizedHorizon, 3, 2, 3)
                 ELSE NoArima).posts
Alone(msg) == AloneFrom(msg, Prepare(msg, <<>>))

\* handler j ran its synchronous part while handler i was suspended at its await
Overtook(j, i) ==
    /\ i < j
    /\ Done(i) /\ Done(j)
    /\ WantsArima(inv[i].msg) /\ ~inv[i].locals.failed
    /\ inv[j].posted < inv[i].posted

\* C6: requests handled while another is suspended at the ARIMA step do not
\* interfere: every response carries the requestId of its own request, error
\* responses too, and is the response the request gets when processed alone.
C6_NoInterference ==
    \A i \in 1..Len(inv) :
        Done(i) =>
            /\ inv[i].posted \in DOMAIN outbox
            /\ ResponseOf(i).requestId = inv[i].msg.requestId
            /\ <<ResponseOf(i)>> = Alone(inv[i].msg)

\* the second request was answered, with an error, while the first was suspended
C6_Witness ==
    \E i, j \in 1..Len(inv) :
        /\ Overtook(j, i)
        /\ IsError(ResponseOf(j))
        /\ IsResult(ResponseOf(i))

SameInputs(m, n) == [m EXCEPT !.requestId = 0] = [n EXCEPT !.requestId = 0]
ApartFromId(r) == [r EXCEPT !.requestId = 0]

MaxRuns == 2

\* what the effect depends on: the series and the configuration, as the request
\* they make
\* two series of equal length on the same days whose sampled values hash alike
HashTwinA == [dates |-> DaysAfter(FirstDay, 8),
              values |-> <<600, 900, 700, 705, 575, 830, 410, 465>>]
HashTwinB == [dates |-> DaysAfter(FirstDay, 8),
              values |-> <<700, 400, 600, 695, 310, 145, 580, 505>>]
TwinRequests ==
    { Message(1, [series |-> tw, horizon |-> 3, confidence |-> 9500, seasonality |-> "none",
                  transform |-> "none"], "ses", "normal") : tw \in {HashTwinA, HashTwinB} }

DispatchConfigs == FollowUps \cup TwinRequests

\* a 32-bit word is kept as its two 16-bit halves <<high, low>>
HalfWord == 2 ^ 16
ToInt32(v) == <<(v \div HalfWord) % HalfWord, v % HalfWord>>

RECURSIVE BitXor(_, _)
BitXor(a, b) ==
    IF a = 0 THEN b
    ELSE IF b = 0 THEN a
    ELSE ((a + b) % 2) + 2 * BitXor(a \div 2, b \div 2)

\* hash ^ v
Xor32(hash, v) == <<BitXor(hash[1], v[1]), BitXor(hash[2], v[2])>>

FnvOffsetBasis == <<33052, 40389>>
FnvPrime == 16777619
\* Math.imul(hash, 16777619)
MathImul(hash, prime) ==
    LET pHigh == prime \div HalfWord
        pLow == prime % HalfWord
        low == hash[2] * pLow
    IN  <<(hash[1] * pLow + hash[2] * pHigh + low \div HalfWord) % HalfWord, low % HalfWord>>

\* the loop over values[0], values[stride], ...: the hash after the values from
\* the 0-based index i on; values are hundredths already, so that
\* Math.round((Number(v) || 0) * 100) is the value itself, 0 for a non-number
RECURSIVE HashFrom(_, _, _, _)
HashFrom(values, i, stride, hash) ==
    IF i >= Len(values) THEN hash
    ELSE HashFrom(values, i + stride, stride,
                  MathImul(Xor32(hash, ToInt32(safeFiniteNumber(values[i + 1]))), FnvPrime))

\* createForecastV2CacheKey: the first and the last date, the number of values,
\* the settings and a 32-bit hash of at most about 25 sampled values
createForecastV2CacheKey(c) ==
    [head |-> IF c.dates = <<>> THEN <<>> ELSE c.dates[1],
     tail |-> IF c.dates = <<>> THEN <<>> ELSE c.dates[Len(c.dates)],
     n |-> Len(c.values), h |-> c.horizon, c |-> c.confidence, z |-> c.anomalyZ,
     s |-> c.seasonality, m |-> c.model, t |-> c.transform, i |-> c.interval,
     hash |-> HashFrom(c.values, 0, Max(1, Len(c.values) \div 25), FnvOffsetBasis)]

\* get(cacheKey): the payload in a list, empty when the store has none
getCachedForecastV2(store, cacheKey) ==
    IF \E e \in DOMAIN store : store[e].key = cacheKey
    THEN <<store[CHOOSE e \in DOMAIN store : store[e].key = cacheKey].payload>>
    ELSE <<>>

\* a store that files every payload under the key without its hash
SetWithoutHash(store, cacheKey, payload) ==
    Append(store, [key |-> [cacheKey EXCEPT !.hash = <<0, 0>>], payload |-> payload])

\* set(cacheKey, payload)
setCachedForecastV2(store, cacheKey, payload) ==
    IF \E e \in DOMAIN store : store[e].key = cacheKey
    THEN [store EXCEPT ![CHOOSE e \in DOMAIN store : store[e].key = cacheKey].payload = payload]
    ELSE Append(store, [key |-> cacheKey, payload |-> payload])

InitDispatch ==
    /\ arimaLib \in ArimaLibs
    /\ WorkerIdle /\ SeriesIdle
    /\ config \in DispatchConfigs
    /\ runs = <<>> /\ cache = <<>>
    /\ result = <<>> /\ error = Null /\ loading = FALSE

\* the effect has not yet run for the present series and configuration
EffectPending == IF runs = <<>> THEN TRUE ELSE runs[Len(runs)].config # config

\* a newer run() has got past its cache lookup: it has posted its request or has
\* finished from the cache
Superseded(k) == \E j \in (k + 1)..Len(runs) : runs[j].pc # "await_cache"

\* run k sets the displayed state
Applies(k, pc) ==
    [runs EXCEPT ![k].pc = pc,
                 ![k].applied = IF Superseded(k) THEN "superseded" ELSE "current"]

\* setConfig, or a new series prop: the dependencies of the effect change
SetConfig ==
    /\ ~EffectPending
    /\ Len(runs) < MaxRuns
    /\ \E c \in DispatchConfigs \ {config} : config' = c
    /\ UNCHANGED <<runs, cache, result, error, loading, workerVars, seriesVars>>

\* the effect: run() up to its await of the cache lookup
RunEffect ==
    /\ EffectPending
    /\ Len(runs) < MaxRuns
    /\ error' = Null
    /\ loading' = TRUE
    /\ runs' = Append(runs,
          [config |-> config,
           cacheKey |-> createForecastV2CacheKey(config),
           cached |-> getCachedForecastV2(cache, createForecastV2CacheKey(config)),
           requestId |-> Len(runs) + 1,
           pc |-> "await_cache",
           applied |-> "no"])
    /\ UNCHANGED <<config, cache, result, workerVars, seriesVars>>

\* the cache lookup of run k resolves: a hit is displayed, a miss posts the request
CacheResolves(k) ==
    /\ runs[k].pc = "await_cache"
    /\ IF runs[k].cached # <<>>
       THEN /\ result' = runs[k].cached
            /\ loading' = FALSE
            /\ runs' = Applies(k, "done")
            /\ UNCHANGED inbox
       ELSE /\ runs' = [runs EXCEPT ![k].pc = "listening"]
            /\ inbox' = Append(inbox, [runs[k].config EXCEPT !.requestId = runs[k].requestId])
            /\ UNCHANGED <<result, loading>>
    /\ UNCHANGED <<config, cache, error, arimaLib, inv, outbox, seriesVars>>

\* the message events reach the page in the order the worker posted them
Delivered(p) ==
    \A k \in 1..Len(runs) : runs[k].requestId = outbox[p].requestId => runs[k].pc = "done"

\* a listener that handles its message and stays registered
ListenerStays(k, p) ==
    /\ runs[k].pc = "listening"
    /\ outbox[p].requestId = runs[k].requestId
    /\ loading' = FALSE
    /\ IF "error" \in DOMAIN outbox[p]
       THEN /\ error' = outbox[p].error
            /\ result' = <<>>
            /\ UNCHANGED cache
       ELSE /\ result' = <<outbox[p]>>
            /\ cache' = setCachedForecastV2(cache, runs[k].cacheKey, outbox[p])
            /\ UNCHANGED error
    /\ UNCHANGED <<config, runs, workerVars, seriesVars>>

\* onMessage of run k, for the worker's message of its requestId
ListenerHandles(k, p) ==
    /\ runs[k].pc = "listening"
    /\ outbox[p].requestId = runs[k].requestId
    /\ \A q \in 1..(p - 1) : Delivered(q)
    /\ runs' = Applies(k, "done")
    /\ loading' = FALSE
    /\ IF "error" \in DOMAIN outbox[p]
       THEN /\ error' = outbox[p].error
            /\ result' = <<>>
            /\ UNCHANGED cache
       ELSE /\ result' = <<outbox[p]>>
            /\ cache' = setCachedForecastV2(cache, runs[k].cacheKey, outbox[p])
            /\ UNCHANGED error
    /\ UNCHANGED <<config, workerVars, seriesVars>>

NextDispatch ==
    \/ SetConfig
    \/ RunEffect
    \/ \E k \in 1..Len(runs) : CacheResolves(k)
    \/ OnMessage
    \/ \E i \in 1..Len(inv) : ArimaSettles(i)
    \/ \E k \in 1..Len(runs), p \in 1..Len(outbox) : ListenerHandles(k, p)

SpecDispatch == InitDispatch /\ [][NextDispatch]_vars

\* what the worker posts for the request c when nothing else is going on
WouldReturn(c) ==
    LET l == Prepare(c, <<>>)
        invs == <<[msg |-> c, locals |-> l]>>
    IN  IF l.failed THEN CatchBlock(c.requestId, l.error)[1]
        ELSE Respond(invs, 1, IF WantsArima(c)
                              THEN arimaAutoForecast(arimaLib, l.train, l.validation,
                                                     l.sanitizedHorizon, 3, 2, 3)
                              ELSE NoArima).posts[1]

FromCache(k) == runs[k].pc = "done" /\ runs[k].cached # <<>>

\* C16: a result shown from the cache is the result the worker would return
\* for the present series and configuration, and two requests whose values or
\* settings differ never have the same cache key.
C16_CacheHitIsCurrent ==
    /\ \A k \in 1..Len(runs) : FromCache(k) =>
           ApartFromId(runs[k].cached[1]) = ApartFromId(WouldReturn(runs[k].config))
    /\ \A j, k \in 1..Len(runs) :
           runs[j].cacheKey = runs[k].cacheKey => SameInputs(runs[j].config, runs[k].config)

\* C5: a run whose request has been superseded, a newer run having posted its
\* request or finished from the cache, never sets result, error or loading,
\* neither from its cache lookup nor from the worker's response.
C5_SupersededIgnored ==
    \A k \in 1..Len(runs) : runs[k].applied # "superseded"

\* C25: in every reachable state of the dispatching component an error on
\* display goes with an empty result.
C25_ErrorMeansNoResult ==
    error # Null => result = <<>>

(***************************************************************************)
(* SpecSeries: buildContinuousDailySeries on any short list of dated       *)
(* values, in any order, with repeated days and non-finite values          *)
(***************************************************************************)
MaxLen == 3

SeriesDates == {<<2023, 12, 31>>, <<2024, 1, 1>>, <<2024, 1, 3>>, <<2024, 3, 1>>}
SeriesValues == {10 * Scale, 20 * Scale, NaN}

InitSeries ==
    /\ arimaLib = "missing"
    /\ WorkerIdle /\ SeriesIdle /\ DispIdle

\* the caller's arrays grow by one dated value
AddPair ==
    /\ sOut = <<>>
    /\ Len(sIn.dates) < MaxLen
    /\ \E d \in SeriesDates, v \in SeriesValues :
           sIn' = [dates |-> Append(sIn.dates, d), values |-> Append(sIn.values, v)]
    /\ UNCHANGED <<sOut, workerVars, dispVars>>

\* buildContinuousDailySeries(dates, values)
BuildSeries ==
    /\ sOut = <<>>
    /\ sIn.dates # <<>>
    /\ sOut' = <<buildContinuousDailySeries(sIn.dates, sIn.values)>>
    /\ UNCHANGED <<sIn, workerVars, dispVars>>

NextSeries == AddPair \/ BuildSeries

SpecSeries == InitSeries /\ [][NextSeries]_vars

\* the calendar, by its rules
IsLeapYear(y) == (y % 4 = 0 /\ y % 100 # 0) \/ y % 400 = 0
DaysInMonth(y, m) ==
    IF m = 2 THEN (IF IsLeapYear(y) THEN 29 ELSE 28)
    ELSE IF m \in {4, 6, 9, 11} THEN 30 ELSE 31
DayAfter(d) ==
    IF d[3] < DaysInMonth(d[1], d[2]) THEN <<d[1], d[2], d[3] + 1>>
    ELSE IF d[2] < 12 THEN <<d[1], d[2] + 1, 1>>
    ELSE <<d[1] + 1, 1, 1>>
NotAfter(a, b) ==
    \/ a[1] < b[1]
    \/ a[1] = b[1] /\ a[2] < b[2]
    \/ a[1] = b[1] /\ a[2] = b[2] /\ a[3] <= b[3]
RECURSIVE DaysFromTo(_, _)
DaysFromTo(a, b) == IF a = b THEN 0 ELSE 1 + DaysFromTo(DayAfter(a), b)

InputDays == {sIn.dates[i] : i \in 1..Len(sIn.dates)}
ValuesOfDay(d) ==
    {(IF sIn.values[i] \in {NaN, Infinity, 0 - Infinity} THEN 0 ELSE sIn.values[i]) :
        i \in {j \in 1..Len(sIn.dates) : sIn.dates[j] = d}}
Earliest == CHOOSE d \in InputDays : \A e \in InputDays : NotAfter(d, e)
Latest == CHOOSE d \in InputDays : \A e \in InputDays : NotAfter(e, d)
SpecExample == [dates |-> << <<2024, 1, 1>>, <<2024, 1, 3>> >>, values |-> <<10 * Scale, 20 * Scale>>]

\* C8: the continuous series runs day by day from the earliest to the latest
\* input date (length = day difference + 1), whatever the order of the input;
\* a day of the input keeps its value, a non-finite value counting as 0; a day
\* absent from the input has value 0; missingCount is the number of absent days;
\* and 2024-01-01, 2024-01-03 with 10, 20 give three entries, 0 for 2024-01-02
\* and missingCount 1.
C8_ContinuousSeries ==
    sOut # <<>> =>
        LET cd == sOut[1].continuousDates
            cv == sOut[1].continuousValues
        IN  /\ Len(cd) = DaysFromTo(Earliest, Latest) + 1
            /\ Len(cv) = Len(cd)
            /\ cd[1] = Earliest
            /\ cd[Len(cd)] = Latest
            /\ \A k \in 1..(Len(cd) - 1) : cd[k + 1] = DayAfter(cd[k])
            /\ \A k \in 1..Len(cd) :
                   IF cd[k] \in InputDays THEN cv[k] \in ValuesOfDay(cd[k]) ELSE cv[k] = 0
            /\ sOut[1].missingCount = Cardinality({k \in 1..Len(cd) : cd[k] \notin InputDays})
            /\ sIn = SpecExample =>
                   /\ cd = << <<2024, 1, 1>>, <<2024, 1, 2>>, <<2024, 1, 3>> >>
                   /\ cv = <<10 * Scale, 0, 20 * Scale>>
                   /\ sOut[1].missingCount = 1

\* a series built from dates out of order, with a gap and a non-finite value
C8_Witness ==
    /\ sOut # <<>>
    /\ sOut[1].missingCount > 0
    /\ \E i \in 1..(Len(sIn.dates) - 1) : ~NotAfter(sIn.dates[i], sIn.dates[i + 1])
    /\ \E i \in 1..Len(sIn.values) : sIn.values[i] = NaN

(***************************************************************************)
(* SpecAnomaly: detectAnomalies on a constant series with one spike day    *)
(***************************************************************************)
MinSpikeDays == 20
MaxSpikeDays == 22

\* n days of `base`, but `spike` on day number at (counted from 1)
SpikeSeries(n, at, base, spike) ==
    [dates |-> DaysAfter(FirstDay, n),
     values |-> ArrayOf([i \in 1..n |-> IF i = at THEN spike ELSE base])]

\* the caller's series: the spec's 100 and 10000, and a smaller pair
ChooseSpikeSeries ==
    /\ sIn.dates = <<>>
    /\ \E n \in MinSpikeDays..MaxSpikeDays, at \in 1..MaxSpikeDays,
          v \in {<<100 * Scale, 10000 * Scale>>, <<5 * Scale, 50 * Scale>>} :
           /\ at <= n
           /\ sIn' = SpikeSeries(n, at, v[1], v[2])
    /\ UNCHANGED <<sOut, workerVars, dispVars>>

\* detectAnomalies(dates, values, 3.0)
DetectAnomalies ==
    /\ sIn.dates # <<>>
    /\ sOut = <<>>
    /\ sOut' = <<detectAnomalies(sIn.dates, sIn.values, DefaultAnomalyZ)>>
    /\ UNCHANGED <<sIn, workerVars, dispVars>>

NextAnomaly == ChooseSpikeSeries \/ DetectAnomalies

SpecAnomaly == InitSeries /\ [][NextAnomaly]_vars

\* the day of the series that differs from the others
SpikeAt == CHOOSE at \in DOMAIN sIn.values :
               \A j, k \in DOMAIN sIn.values \ {at} : sIn.values[j] = sIn.values[k]

\* C13: for a series constant but for one spike day, with anomalyZ = 3.0,
\* detectAnomalies flags the spike day and no other day, wherever the spike is.
C13_OnlySpikeFlagged ==
    sOut # <<>> =>
        {sOut[1][a].index : a \in DOMAIN sOut[1]} = {SpikeAt - 1}


(***************************************************************************)
(* SpecSeason: the weekly effect is removed from a series and added back.   *)
(***************************************************************************)
\* weekly effect tables, one entry per day of the week, Sunday first
EffectTables ==
    { NoSeasonalEffect,
      <<-3 * Scale, 1 * Scale, 2 * Scale, 0, -1 * Scale, 4 * Scale, -3 * Scale>>,
      <<Scale \div 4, -(Scale \div 2), 7, -7, 1, 0, -1>> }

SeasonStarts == {FirstDay, <<2024, 2, 27>>}

\* the caller's arguments: dates on consecutive days, any values, an effect table
ChooseSeasonInput ==
    /\ sIn.dates = <<>>
    /\ \E n \in 1..MaxLen, start \in SeasonStarts, e \in EffectTables :
       \E vs \in [1..n -> SeriesValues] :
           sIn' = [dates |-> DaysAfter(start, n), values |-> ArrayOf(vs), effect |-> e]
    /\ UNCHANGED <<sOut, workerVars, dispVars>>

\* addWeeklyReseasonalize(dates, applyWeeklyDeseasonalize(dates, values, effect), effect)
Reseasonalize ==
    /\ sIn.dates # <<>>
    /\ sOut = <<>>
    /\ sOut' = <<addWeeklyReseasonalize(sIn.dates,
                     applyWeeklyDeseasonalize(sIn.dates, sIn.values, sIn.effect),
                     sIn.effect)>>
    /\ UNCHANGED <<sIn, workerVars, dispVars>>

NextSeason == ChooseSeasonInput \/ Reseasonalize

SpecSeason == InitSeries /\ [][NextSeason]_vars

\* C14: removing the weekly effect from a value sequence and adding it back
\* with the same table returns the value sequence, element by element.
C14_RoundTrip == sOut # <<>> => sOut[1] = sIn.values


(***************************************************************************)
(* SpecFlat: the worker is asked to forecast a series of one constant value.*)
(***************************************************************************)
MinFlatDays == 14
MaxFlatDays == 15

FlatSeries(n, v) == [dates |-> DaysAfter(FirstDay, n), values |-> ArrayOf([i \in 1..n |-> v])]

FlatRequests ==
    { Message(1, [series |-> FlatSeries(n, v * Scale), horizon |-> h, confidence |-> 9500,
                  seasonality |-> s, transform |-> "none"], mdl, "auto") :
        n \in MinFlatDays..MaxFlatDays, v \in {0, 5, 100}, h \in {3, 14},
        s \in {"none", "weekly"}, mdl \in ModelSettings }

PostFlat == \E m \in FlatRequests : Post(m, 1)

NextFlat == PostFlat \/ OnMessage \/ \E i \in 1..Len(inv) : ArimaSettles(i)

SpecFlat == Init /\ [][NextFlat]_vars

\* the constant value of the series handler i was given
FlatValue(i) == inv[i].msg.values[1]
AllEqual(s, v) == \A k \in DOMAIN s : s[k] = v
SimpleModels == {"seasonal_naive", "drift", "ses", "holt", "ensemble"}

MaxChangeLen == 6
MinStepDays == 14
MaxStepDays == 16

\* window, zThreshold, maxPoints: the ones of the worker first
ChangeSettings == { <<7, 250, 5>>, <<1, 100, 2>>, <<2, 150, 2>> }
ChangeValues == {0, 10 * Scale, 30 * Scale}

ChangeInput(values, setting) ==
    [dates |-> DaysAfter(FirstDay, Len(values)), values |-> values,
     window |-> setting[1], zThreshold |-> setting[2], maxPoints |-> setting[3]]

\* a series of up to MaxChangeLen values
ChooseChangeSeries ==
    /\ sIn.dates = <<>>
    /\ \E n \in 1..MaxChangeLen, setting \in ChangeSettings :
       \E vs \in [1..n -> ChangeValues] : sIn' = ChangeInput(ArrayOf(vs), setting)
    /\ UNCHANGED <<sOut, workerVars, dispVars>>

\* a series that steps from one level to another on the day `at`
ChooseStepSeries ==
    /\ sIn.dates = <<>>
    /\ \E n \in MinStepDays..MaxStepDays, at \in 1..MaxStepDays, setting \in ChangeSettings,
          level \in {<<0, 30 * Scale>>, <<30 * Scale, 10 * Scale>>} :
           /\ at <= n
           /\ sIn' = ChangeInput(ArrayOf([i \in 1..n |-> IF i < at THEN level[1] ELSE level[2]]),
                                 setting)
    /\ UNCHANGED <<sOut, workerVars, dispVars>>

DetectChangePoints ==
    /\ sIn.dates # <<>>
    /\ sOut = <<>>
    /\ sOut' = <<detectChangePoints(sIn.dates, sIn.values, sIn.window, sIn.zThreshold,
                                    sIn.maxPoints)>>
    /\ UNCHANGED <<sIn, workerVars, dispVars>>

NextChange == ChooseChangeSeries \/ ChooseStepSeries \/ DetectChangePoints

SpecChange == InitSeries /\ [][NextChange]_vars

\* the 0-based indices the loop visits, and the effect size it computes there
Visited == {i \in sIn.window..(Len(sIn.values) - sIn.window) :
               Len(sIn.values) >= 2 * sIn.window + 1}
EffectAt(i) == ChangeAt(sIn.dates, sIn.values, i, sIn.window).z
\* the visited index i is not among the change points for a reason the code has
Outranked(i, points) ==
    \/ \E k \in DOMAIN points :
          /\ Abs(points[k].index - i) <= sIn.window
          /\ Abs(points[k].z) >= Abs(EffectAt(i))
    \/ /\ Len(points) = sIn.maxPoints
       /\ \A k \in DOMAIN points : Abs(points[k].z) >= Abs(EffectAt(i))

\* C18: detectChangePoints returns at most maxPoints (5) change points, their
\* indices strictly increasing and any two more than window (7) apart, each an
\* index the loop visits with |mean shift| / pooled std at or above zThreshold
\* (2.5); a visited index of such an effect that is left out has a change
\* point of at least its effect within the window, or maxPoints change points
\* of at least its effect; a series shorter than 2 window + 1 has none.
C18_ChangePoints ==
    sOut # <<>> =>
        LET points == sOut[1]
        IN  /\ Len(points) <= sIn.maxPoints
            /\ \A k \in 1..(Len(points) - 1) :
                  points[k + 1].index - points[k].index > sIn.window
            /\ \A k \in DOMAIN points :
                  /\ points[k].index \in Visited
                  /\ points[k].z = EffectAt(points[k].index)
                  /\ Abs(points[k].z) >= sIn.zThreshold
                  /\ points[k].date = sIn.dates[points[k].index + 1]
            /\ \A i \in Visited :
                  (Abs(EffectAt(i)) >= sIn.zThreshold
                   /\ \A k \in DOMAIN points : points[k].index # i) => Outranked(i, points)
            /\ Len(sIn.values) < 2 * sIn.window + 1 => points = <<>>

\* two change points are returned and a candidate in conflict with one of them
\* was left out
C18_Witness ==
    /\ sOut # <<>>
    /\ Len(sOut[1]) = 2
    /\ \E i \in Visited :
          /\ Abs(EffectAt(i)) >= sIn.zThreshold
          /\ \A k \in DOMAIN sOut[1] : sOut[1][k].index # i
          /\ \E k \in DOMAIN sOut[1] : Abs(sOut[1][k].index - i) <= sIn.window


(***************************************************************************)
(* SpecArima: the order search of arimaAutoForecast on short series, with   *)
(* each behaviour of the package                                            *)
(***************************************************************************)
MaxTrainLen == 4
ArimaValues == {1 * Scale, 5 * Scale}
ArimaValidations ==
    { <<2 * Scale>>, <<1 * Scale, 3 * Scale>>,
      ArrayOf([i \in 1..(ArimaMaxSteps + 1) |-> 2 * Scale]) }

ChooseArimaInput ==
    /\ sIn.dates = <<>>
    /\ \E n \in 1..MaxTrainLen, valid \in ArimaValidations :
       \E vs \in [1..n -> ArimaValues] :
           sIn' = [dates |-> DaysAfter(FirstDay, n), values |-> ArrayOf(vs),
                   validation |-> valid, horizon |-> 3]
    /\ UNCHANGED <<sOut, workerVars, dispVars>>

\* arimaAutoForecast(train, validation, horizon), with the default maxP, maxD, maxQ
ArimaSearch ==
    /\ sIn.dates # <<>>
    /\ sOut = <<>>
    /\ sOut' = <<arimaAutoForecast(arimaLib, sIn.values, sIn.validation, sIn.horizon, 3, 2, 3)>>
    /\ UNCHANGED <<sIn, workerVars, dispVars>>

NextArima == ChooseArimaInput \/ ArimaSearch

SpecArima == Init /\ [][NextArima]_vars

\* the (p, d, q) of the default search
OrderGrid == {[p |-> p, d |-> d, q |-> q] : p \in 0..3, d \in 0..2, q \in 0..3}
\* how often the loops, trying `orders`, reach the order o
TimesTried(orders, o) == Cardinality({i \in DOMAIN orders : orders[i] = o})
\* the order o is skipped: its fit throws or its validation prediction has the
\* wrong length
Skipped(o) ==
    \/ ArimaTrainThrows(arimaLib, o.p, o.d, o.q, sIn.values)
    \/ Len(ArimaPredict(arimaLib, o.p, o.d, o.q, sIn.values, Len(sIn.validation)))
           # Len(sIn.validation)
\* rmse * 1e6 + mae of the order o
OrderScore(o) ==
    LET metrics == computeErrorMetrics(MapSafe(sIn.validation),
                       MapClamp(ArimaPredict(arimaLib, o.p, o.d, o.q, sIn.values,
                                             Len(sIn.validation))), NullNum)
    IN  [hi |-> OrElse(metrics.rmse, Infinity), lo |-> OrElse(metrics.mae, Infinity)]

\* the search itself: which order wins among those not skipped
SearchOutcome(combinations) ==
    /\ LET orders == ArimaOrders(3, 2, 3)
       IN  /\ Len(orders) = combinations
           /\ \A o \in OrderGrid : TimesTried(orders, o) = 1
           /\ \A i \in DOMAIN orders : orders[i] \in OrderGrid
    /\ sOut # <<>> =>
          IF arimaLib = "missing" \/ \A o \in OrderGrid : Skipped(o)
          THEN ~sOut[1].ok
          ELSE LET won == OrderScore(sOut[1].params)
               IN  /\ sOut[1].ok
                   /\ sOut[1].params \in OrderGrid
                   /\ ~Skipped(sOut[1].params)
                   /\ Len(sOut[1].validationPred) = Len(sIn.validation)
                   /\ \A o \in OrderGrid : Skipped(o) \/ ~ScoreLess(OrderScore(o), won)

\* C19 as stated: 36 combinations
C19_Search36 == SearchOutcome(36)

\* C19: the order search tries every (p, d, q) with p in 0..3, d in 0..2,
\* q in 0..3, each once, 48 combinations in total; a combination whose fit
\* throws or whose validation prediction has the wrong length is skipped and
\* the search goes on; the winner has the lowest rmse * 1e6 + mae among the
\* combinations not skipped.
C19_Search48 == SearchOutcome(48)

\* the loops reach the order o before the order w
TriedBefore(o, w) ==
    \/ o.p < w.p
    \/ o.p = w.p /\ o.d < w.d
    \/ o.p = w.p /\ o.d = w.d /\ o.q < w.q

\* an order wins that the loops reach after an order they skipped
C19_Witness ==
    /\ sOut # <<>>
    /\ sOut[1].ok
    /\ \E o \in OrderGrid : Skipped(o) /\ TriedBefore(o, sOut[1].params)


(***************************************************************************)
(* SpecNaive: seasonalNaiveForecast on a history, with and without the      *)
(* weekly season                                                            *)
(***************************************************************************)
MaxHistoryLen == 10
MaxNaiveHorizon == 15

\* histories whose values tell their places apart
NaiveHistories(n) ==
    { ArrayOf([i \in 1..n |-> i * Scale]),
      ArrayOf([i \in 1..n |-> (n + 1 - i) * Scale]),
      ArrayOf([i \in 1..n |-> IF i % 3 = 0 THEN NaN ELSE (i % 4) * Scale - Scale]) }

ChooseHistory ==
    /\ sIn.dates = <<>>
    /\ \E n \in 1..MaxHistoryLen, h \in 0..MaxNaiveHorizon, season \in {1, 7} :
       \E history \in NaiveHistories(n) :
           sIn' = [dates |-> DaysAfter(FirstDay, n), values |-> history,
                   horizon |-> h, seasonLength |-> season]
    /\ UNCHANGED <<sOut, workerVars, dispVars>>

SeasonalNaive ==
    /\ sIn.dates # <<>>
    /\ sOut = <<>>
    /\ sOut' = <<seasonalNaiveForecast(sIn.values, sIn.horizon, sIn.seasonLength)>>
    /\ UNCHANGED <<sIn, workerVars, dispVars>>

NextNaive == ChooseHistory \/ SeasonalNaive

SpecNaive == InitSeries /\ [][NextNaive]_vars

\* the history value (coerced and clamped as the forecast is) `back` days
\* before the last one
ValueBack(back) == clampNonNegative(sIn.values[Len(sIn.values) - back])
\* without a season every forecast day repeats the last value
LastValueRepeats ==
    (sOut # <<>> /\ sIn.seasonLength = 1) =>
        /\ Len(sOut[1]) = sIn.horizon
        /\ \A k \in 0..(sIn.horizon - 1) : sOut[1][k + 1] = ValueBack(0)
\* the weekly forecast has period 7
WeeklyPeriod ==
    (sOut # <<>> /\ sIn.seasonLength = 7 /\ Len(sIn.values) >= 7) =>
        /\ Len(sOut[1]) = sIn.horizon
        /\ \A k \in 0..(sIn.horizon - 8) : sOut[1][k + 8] = sOut[1][k + 1]

\* C22 as stated: forecast day k repeats the value k mod 7 days before the end
C22_CountsBack ==
    /\ LastValueRepeats
    /\ WeeklyPeriod
    /\ (sOut # <<>> /\ sIn.seasonLength = 7 /\ Len(sIn.values) >= 7) =>
          \A k \in 0..(sIn.horizon - 1) : sOut[1][k + 1] = ValueBack(k % 7)

\* C22: with the weekly season and at least 7 history values, forecast day k
\* repeats the value of the same weekday of the last week, the one 6 - (k mod 7)
\* days before the last value, so the forecast has period 7; without the
\* season every forecast day repeats the last value.
C22_SeasonalNaive ==
    /\ LastValueRepeats
    /\ WeeklyPeriod
    /\ (sOut # <<>> /\ sIn.seasonLength = 7 /\ Len(sIn.values) >= 7) =>
          \A k \in 0..(sIn.horizon - 1) : sOut[1][k + 1] = ValueBack(6 - (k % 7))

\* a weekly forecast of more than a week from more than a week of history
C22_Witness ==
    /\ sOut # <<>>
    /\ sIn.seasonLength = 7
    /\ Len(sIn.values) > 7
    /\ Len(sOut[1]) > 8
    /\ sOut[1][1] # sOut[1][2]


(***************************************************************************)
(* Properties of the results of Spec: seasonality, training prefix, bounds  *)
(***************************************************************************)
\* the value x of the model's scale with the effect of `date` added, back on
\* the original scale
Reseasonalized(l, x, date) ==
    clampNonNegative(invertTransform(
        <<safeFiniteNumber(x) + l.seasonalEffectModel[dayOfWeekIndexUTC(date) + 1]>>,
        l.transformMethod)[1])
\* the candidates whose predictions are made on the deseasonalized series
Deseasonalized == {"drift", "ses", "holt", "arima"}

\* C23: with weekly seasonality the effect added back to forecast index k is
\* the effect of the weekday of forecastDates[k], the effect added back to
\* validation index j is that of the weekday of the j-th held-out date, and
\* forecastDates are the consecutive days after the last history date.
C23_Reseasonalize ==
    \A i \in DOMAIN inv : (Answered(i) /\ inv[i].locals.seasonalityEnabled) =>
        LET l == inv[i].locals
            r == ResponseOf(i)
            cands == AtPick(i).candidateResults
            heldOut(j) == l.continuousDates[l.trainSize + j]
        IN  /\ Len(r.forecastDates) = l.sanitizedHorizon
            /\ \A k \in DOMAIN r.forecastDates :
                  r.forecastDates[k] = DayAfter(IF k = 1 THEN r.historyDates[Len(r.historyDates)]
                                                ELSE r.forecastDates[k - 1])
            /\ \A c \in DOMAIN cands : cands[c].id \in Deseasonalized =>
                  /\ Len(cands[c].forecastFuture) = Len(cands[c].forecastFutureDeseasonal)
                  /\ \A k \in DOMAIN cands[c].forecastFuture :
                        cands[c].forecastFuture[k]
                            = Reseasonalized(l, cands[c].forecastFutureDeseasonal[k],
                                             r.forecastDates[k])
            /\ \A c \in DOMAIN cands :
                  /\ cands[c].id = "drift" =>
                        \A j \in 1..l.backtestWindow :
                            cands[c].validationPred[j]
                                = Reseasonalized(l, driftForecast(l.train, l.backtestWindow)[j],
                                                 heldOut(j))
                  /\ cands[c].id = "ses" =>
                        \A j \in 1..l.backtestWindow :
                            cands[c].validationPred[j]
                                = Reseasonalized(l, sesForecast(l.train, l.backtestWindow,
                                                                cands[c].params.alpha)[j],
                                                 heldOut(j))

\* a weekly result whose effects differ between the first two forecast days
C23_Witness ==
    \E i \in DOMAIN inv :
        /\ Answered(i)
        /\ inv[i].locals.seasonalityEnabled
        /\ Len(ResponseOf(i).forecastDates) >= 2
        /\ inv[i].locals.seasonalEffectModel[dayOfWeekIndexUTC(ResponseOf(i).forecastDates[1]) + 1]
              # inv[i].locals.seasonalEffectModel[dayOfWeekIndexUTC(ResponseOf(i).forecastDates[2]) + 1]


(***************************************************************************)
(* SpecHoldout: the worker is asked about series that agree on a prefix and *)
(* differ on their last days                                                *)
(***************************************************************************)
MaxHoldoutRequests == 2

\* 14 days: the backtest window is 7 and the first 7 values are the training prefix
TrainingWeek == <<3, 5, 4, 6, 2, 1, 3>>
HeldOutWeeks == { <<3, 5, 4, 6, 2, 1, 3>>, <<9, 1, 1, 1, 1, 1, 9>>, <<2, 2, 2, 9, 2, 2, 2>> }

HoldoutRequests ==
    { Message(1, [series |-> [dates |-> DaysAfter(FirstDay, 14),
                              values |-> Units(TrainingWeek \o week)],
                  horizon |-> 3, confidence |-> 9500, seasonality |-> s, transform |-> t],
              "drift", "normal") :
        week \in HeldOutWeeks, s \in {"none", "weekly"}, t \in {"none", "auto"} }

PostHoldout == \E m \in HoldoutRequests : Post(Numbered(m), MaxHoldoutRequests)

NextHoldout == PostHoldout \/ OnMessage

InitHoldout == arimaLib = "missing" /\ WorkerIdle /\ SeriesIdle /\ DispIdle

SpecHoldout == InitHoldout /\ [][NextHoldout]_vars

\* handlers i and j were given the same dates and settings and the same values
\* on the training prefix
SameTraining(i, j) ==
    /\ ~inv[i].locals.failed /\ ~inv[j].locals.failed
    /\ inv[i].msg.dates = inv[j].msg.dates
    /\ inv[i].msg.seasonality = inv[j].msg.seasonality
    /\ inv[i].msg.transform = inv[j].msg.transform
    /\ inv[i].locals.trainSize = inv[j].locals.trainSize
    /\ SliceTo(inv[i].locals.continuousValues, inv[i].locals.trainSize)
          = SliceTo(inv[j].locals.continuousValues, inv[j].locals.trainSize)
ValidationPredOf(i, id) ==
    LET cands == inv[i].locals.candidateResults
    IN  cands[CHOOSE c \in DOMAIN cands : cands[c].id = id].validationPred

\* C24: two series with the same dates, settings and training-prefix values
\* get the same drift and the same seasonal-naive validation predictions,
\* whatever their held-out values are.
C24_TrainingPrefixOnly ==
    \A i, j \in DOMAIN inv : SameTraining(i, j) =>
        /\ ValidationPredOf(i, "drift") = ValidationPredOf(j, "drift")
        /\ ValidationPredOf(i, "seasonal_naive") = ValidationPredOf(j, "seasonal_naive")


(***************************************************************************)
(* Properties of the results of Spec: forecasts, bounds and leaderboard     *)
(***************************************************************************)
\* the forecast model `c` makes when it is applied to the whole history of l
FromWholeHistory(l, c) ==
    IF c.id = "seasonal_naive"
      THEN seasonalNaiveForecast(l.transformedValues, l.sanitizedHorizon, l.seasonLength)
    ELSE IF c.id = "drift" THEN driftForecast(l.modelInputValues, l.sanitizedHorizon)
    ELSE IF c.id = "ses"
      THEN sesForecast(l.modelInputValues, l.sanitizedHorizon, c.params.alpha)
    ELSE IF c.id = "holt"
      THEN holtForecast(l.modelInputValues, l.sanitizedHorizon, c.params.alpha, c.params.beta)
    ELSE MapClamp(ArimaPredict(arimaLib, c.params.p, c.params.d, c.params.q,
                               MapSafe(l.modelInputValues), l.sanitizedHorizon))

\* C26: behind every result, the future forecast of every candidate, ARIMA
\* included, is the forecast of its model applied to the entire history.
C26_ForecastFromWholeHistory ==
    \A i \in DOMAIN inv : Answered(i) =>
        LET l == AtPick(i)
        IN  \A c \in DOMAIN l.candidateResults :
                l.candidateResults[c].id # "ensemble" =>
                    l.candidateResults[c].forecastFutureDeseasonal
                        = FromWholeHistory(l, l.candidateResults[c])


\* C27: in every result ciLower and ciUpper have the same length and
\* ciLower[k] <= ciUpper[k] at every index, whichever interval method was
\* used: the low residual quantile is at most the high one, and -z * sigma
\* is at most z * sigma.
C27_LowerBelowUpper ==
    \A i \in DOMAIN inv : Answered(i) =>
        LET r == ResponseOf(i)
        IN  /\ Len(r.ciLower) = Len(r.ciUpper)
            /\ \A k \in DOMAIN r.ciLower : r.ciLower[k] <= r.ciUpper[k]
            /\ r.interval.quantiles.low <= r.interval.quantiles.high
            /\ 0 - Mul(r.interval.z, r.interval.sigma) <= Mul(r.interval.z, r.interval.sigma)

\* a result with empirical bounds that differ
C27_Witness ==
    \E i \in DOMAIN inv :
        /\ Answered(i)
        /\ ResponseOf(i).interval.method = "empirical"
        /\ ResponseOf(i).interval.quantiles.low < ResponseOf(i).interval.quantiles.high
        /\ \E k \in DOMAIN ResponseOf(i).ciLower :
               ResponseOf(i).ciLower[k] < ResponseOf(i).ciUpper[k]


AlwaysListed == {"seasonal_naive", "drift", "ses", "holt"}
Listed(board, id) == {k \in DOMAIN board : board[k].id = id}

\* C28: in every result modelLeaderboard lists seasonal_naive, drift, ses and
\* holt once each, lists no id twice, and lists arima only when the requested
\* model is auto or arima; no response is the error 'No forecasting
\* candidates available'.
C28_LeaderboardIds ==
    /\ \A i \in DOMAIN inv : Answered(i) =>
           LET board == ResponseOf(i).modelLeaderboard
           IN  /\ \A id \in AlwaysListed : Cardinality(Listed(board, id)) = 1
               /\ \A j, k \in DOMAIN board : board[j].id = board[k].id => j = k
               /\ Listed(board, "arima") # {} => inv[i].msg.model \in {"auto", "arima"}
    /\ \A p \in DOMAIN outbox :
           IsError(outbox[p]) => outbox[p].error # "No forecasting candidates available"

\* a result that lists six candidates, arima and the ensemble among them
C28_Witness ==
    \E i \in DOMAIN inv :
        /\ Answered(i)
        /\ Listed(ResponseOf(i).modelLeaderboard, "arima") # {}
        /\ Listed(ResponseOf(i).modelLeaderboard, "ensemble") # {}
        /\ Len(ResponseOf(i).modelLeaderboard) = 6


(***************************************************************************)
(* SpecListen: the dispatcher and the worker under fair scheduling: the    *)
(* cache lookup resolves, the worker handles its queue, an awaited import  *)
(* settles and a message event reaches its listeners                       *)
(***************************************************************************)
\* two series with one cache key that are forecast without ARIMA, a series
\* that is too short and one whose forecast awaits the ARIMA import
ListenConfigs ==
    {m \in DispatchConfigs :
        \/ m \in TwinRequests
        \/ m.dates = TooShort.dates
        \/ m.dates = Rising.dates /\ m.values = Rising.values /\ m.transform = "none"}

InitListen == InitDispatch /\ config \in ListenConfigs

NextListen ==
    \/ SetConfig /\ config' \in ListenConfigs
    \/ RunEffect
    \/ \E k \in 1..Len(runs) : CacheResolves(k)
    \/ OnMessage
    \/ \E i \in 1..Len(inv) : ArimaSettles(i)
    \/ \E k \in 1..Len(runs), p \in 1..Len(outbox) : ListenerHandles(k, p)

\* the worker takes the message at the head of its queue: the step of
\* OnMessage as it shows on the queue, which no other action shortens
WorkerTakes == inbox # <<>> /\ inbox' = Tail(inbox)

\* handler i is suspended at its await of the ARIMA import
AwaitsArima(i) == i <= Len(inv) /\ inv[i].pc = "await_arima"

\* fairness: a pending cache lookup resolves, the worker's queue is served, an
\* awaited import settles (ArimaSettles(i) is enabled exactly while handler i
\* awaits and ends the await, so its weak fairness is that no handler awaits
\* for ever), and a posted message event is dispatched to its listener
SpecListen ==
    /\ InitListen
    /\ [][NextListen]_vars
    /\ WF_vars(\E k \in 1..Len(runs) : CacheResolves(k))
    /\ WF_inbox(WorkerTakes)
    /\ \A i \in 1..MaxRuns : []<>(~AwaitsArima(i))
    /\ WF_vars(\E k \in 1..Len(runs), p \in 1..Len(outbox) : ListenerHandles(k, p))

\* run k posted the request that the worker answered with payload
Produced(k, payload) ==
    /\ runs[k].pc = "done"
    /\ runs[k].cached = <<>>
    /\ runs[k].requestId = payload.requestId
    /\ \E p \in DOMAIN outbox : outbox[p] = payload

\* C29: every entry of the cache holds a result of the worker, never an error
\* response, under the cache key of the series and settings of the run that
\* posted its request, whatever the configuration has become since.
C29_CacheHoldsOwnResults ==
    \A e \in DOMAIN cache :
        /\ IsResult(cache[e].payload)
        /\ \E k \in DOMAIN runs :
               /\ Produced(k, cache[e].payload)
               /\ cache[e].key = createForecastV2CacheKey(runs[k].config)
               /\ \E i \in DOMAIN inv :
                      /\ inv[i].msg.requestId = runs[k].requestId
                      /\ SameInputs(runs[k].config, inv[i].msg)

\* a result stored by a run that was superseded while its request was in
\* flight, the configuration being another one by now
C29_Witness ==
    \E e \in DOMAIN cache, k \in DOMAIN runs :
        /\ Produced(k, cache[e].payload)
        /\ runs[k].applied = "superseded"
        /\ createForecastV2CacheKey(config) # cache[e].key

\* run k has posted its request and its listener is registered
Listening(k) == k <= Len(runs) /\ runs[k].pc = "listening"
\* run k has finished: from the cache, or its listener has handled the
\* response and is removed
Finished(k) == k <= Len(runs) /\ runs[k].pc = "done"

============================================================================
